---- MODULE Spec2Model ----
(***************************************************************************)
(* Multi-object tracking engines of minimart_2.0:                          *)
(*   ByteTracker      (bytetrack_tracker.py)  greedy IoU association       *)
(*   OCSort           (ocsort_tracker.py)     Hungarian + re-identification*)
(*   TrackingService  (services/tracking.py)  greedy distance association  *)
(* One engine instance is driven frame by frame; update() and reset() are  *)
(* atomic steps (the engines are single-threaded and synchronous).         *)
(*                                                                         *)
(* Numbers.  Scores and similarities are integers in percent (0.9 = 90).   *)
(* An IoU is the exact fraction <<intersection, union>>; comparisons are   *)
(* done by cross-multiplication, so no rounding enters the model.          *)
(***************************************************************************)
EXTENDS Integers, Sequences, FiniteSets, TLC

VARIABLES
    engine,     \* which engine this instance is: "bytetrack", "ocsort", "service"
    cfg,        \* constructor arguments of the instance
    bt,         \* ByteTracker fields
    oc,         \* OCSort fields (pools hold references into oc.heap)
    ts,         \* TrackingService fields
    calls,      \* history: the number of update() calls so far
    issued,     \* history: every identifier this instance has handed out
    gone,       \* history: the tracks OCSort removed with enough hits, as they
                \* were then, until re-identified or older than max_age
    last,       \* history: what the last public call did
    twin        \* a second instance of the same engine with the same
                \* configuration, when two runs are compared; else <<>>

vars == <<engine, cfg, bt, oc, ts, calls, issued, gone, last, twin>>

-----------------------------------------------------------------------------
(* Bounds of the model *)

\* an instance receives at most this many update() calls in its life
MaxCalls == 5
\* update() is not called with a frame that would take the id counter above this
MaxIds == 3
\* ByteTracker's lost-retention horizon in frames (the default is 30)
bt_track_buffer == 2
\* OCTrack's occlusion budget in frames (the source sets 30)
max_occlusion_frames == 1
\* OCSort's age horizon of the disappeared pool in frames (the default is 50)
oc_max_age == 4
\* TrackingService's age limit in frames (the default is 30)
ts_max_age == 2
\* a direct association call gets at most this many tracks and detections
MaxAssoc == 2
\* the observations deque keeps its last entries (_apply_oos reads five)
ObsKept == 5

-----------------------------------------------------------------------------
(* Generic helpers *)

Max(a, b) == IF a >= b THEN a ELSE b
Min(a, b) == IF a <= b THEN a ELSE b

Range(s) == {s[i] : i \in 1..Len(s)}

\* list.remove(x): drop the first element equal to x
RECURSIVE RemoveFirst(_, _)
RemoveFirst(s, x) ==
    IF s = <<>> THEN <<>>
    ELSE IF Head(s) = x THEN Tail(s)
    ELSE <<Head(s)>> \o RemoveFirst(Tail(s), x)

\* [f(s[i]) for i in indices]
Pick(s, idx) == [k \in 1..Len(idx) |-> s[idx[k]]]

\* indices (ascending) at which the sequence of booleans is TRUE
RECURSIVE IndicesFrom(_, _)
IndicesFrom(flags, i) ==
    IF i > Len(flags) THEN <<>>
    ELSE (IF flags[i] THEN <<i>> ELSE <<>>) \o IndicesFrom(flags, i + 1)

IndicesWhere(flags) == IndicesFrom(flags, 1)

\* range(n) of the source, shifted to the 1-based positions of a sequence
Iota(n) == [i \in 1..n |-> i]

-----------------------------------------------------------------------------
(* Boxes and IoU *)

\* tlwh -> tlbr : ret[2:] += ret[:2]
tlbr(tlwh) == <<tlwh[1], tlwh[2], tlwh[1] + tlwh[3], tlwh[2] + tlwh[4]>>

\* the conversion with a slip: the corners are never converted
to_tlwh_asis(det) == det

\* the conversion at the head of update(): a 4-number detection is taken as
\* tlbr when x2 > x1 and y2 > y1, else as tlwh
to_tlwh(det) ==
    IF det[3] > det[1] /\ det[4] > det[2]
    THEN <<det[1], det[2], det[3] - det[1], det[4] - det[2]>>
    ELSE det

\* twice the centre of a tlwh box (the centre itself may be a half-integer)
center2(tlwh) ==
    LET b == tlbr(tlwh) IN <<b[1] + b[3], b[2] + b[4]>>

\* the cost with a slip: the intersection over the area of the first box
iou_over_first(box1, box2) ==
    LET x1 == Max(box1[1], box2[1])
        y1 == Max(box1[2], box2[2])
        x2 == Min(box1[3], box2[3])
        y2 == Min(box1[4], box2[4])
        intersection == (x2 - x1) * (y2 - y1)
        area1 == (box1[3] - box1[1]) * (box1[4] - box1[2])
    IN  IF x2 <= x1 \/ y2 <= y1 THEN <<0, 1>>
        ELSE IF area1 <= 0 THEN <<0, 1>>
        ELSE <<intersection, area1>>

\* _iou(box1, box2) on tlbr boxes, as the fraction <<intersection, union>>;
\* <<0, 1>> is the source's 0.0
iou(box1, box2) ==
    LET x1 == Max(box1[1], box2[1])
        y1 == Max(box1[2], box2[2])
        x2 == Min(box1[3], box2[3])
        y2 == Min(box1[4], box2[4])
        intersection == (x2 - x1) * (y2 - y1)
        area1 == (box1[3] - box1[1]) * (box1[4] - box1[2])
        area2 == (box2[3] - box2[1]) * (box2[4] - box2[2])
        union == area1 + area2 - intersection
    IN  IF x2 <= x1 \/ y2 <= y1 THEN <<0, 1>>
        ELSE IF union <= 0 THEN <<0, 1>>
        ELSE <<intersection, union>>

\* fraction comparisons (denominators are positive)
FracGT(a, b) == a[1] * b[2] > b[1] * a[2]
FracGE(a, b) == a[1] * b[2] >= b[1] * a[2]
\* fraction against a threshold given in percent
FracGEPct(a, pct) == a[1] * 100 >= pct * a[2]

-----------------------------------------------------------------------------
(* Inputs *)

\* A detection as the caller passes it: four numbers, a score in percent and
\* the appearance of the image region under it ("none": no frame was given).
Detection(box, score, crop) == [box |-> box, score |-> score, crop |-> crop]

\* Boxes are 10 wide and 1 high, given as [x1, y1, x2, y2], at offset x.
BoxAt(x) == <<x, 0, x + 10, 1>>

\* ByteTracker frames.  BoxAt(1) overlaps BoxAt(0) with IoU 9/11, above the
\* match threshold 0.8; BoxAt(20) overlaps neither.  One frame holds a weak
\* (0.3) and a very weak (0.05) detection.
Sure(x) == Detection(BoxAt(x), 90, "none")

BTFrames ==
    { <<>>,
      <<Sure(0)>>,
      <<Sure(1)>>,
      <<Sure(20)>>,
      <<Sure(0), Sure(20)>>,
      <<Sure(0), Sure(1)>>,
      <<Detection(BoxAt(0), 30, "none"), Detection(BoxAt(0), 5, "none")>> }

\* OCSort is given an image: every detection has a visible region, showing
\* "a" or "b".  BoxAt(5) overlaps BoxAt(0) with IoU 5/15, above
\* 0.3; BoxAt(300) is beyond the re-identification gate of 200 from both.
Seen(x, look) == Detection(BoxAt(x), 90, look)

OCFrames ==
    { <<>>,
      <<Seen(0, "a")>>,
      <<Seen(5, "a")>>,
      <<Seen(0, "a"), Seen(5, "a")>>,
      <<Seen(0, "b"), Seen(300, "a")>>,
      <<Seen(300, "a")>>,
      <<Detection(BoxAt(0), 30, "a"), Detection(BoxAt(0), 5, "a")>> }

\* TrackingService takes dicts x, y, width, height, confidence
Person(x) == [x |-> x, y |-> 0, width |-> 10, height |-> 1, confidence |-> 90]

TSFrames ==
    { <<>>, <<Person(0)>>, <<Person(5)>>, <<Person(0), Person(5)>>,
      <<Person(5), Person(0)>>, <<Person(300)>> }

-----------------------------------------------------------------------------
(* bytetrack_tracker.py : STrack *)

\* STrack.__init__
STrack(tlwh, score) ==
    [ tlwh |-> tlwh, score |-> score, track_id |-> 0, is_activated |-> FALSE,
      state |-> "new", frame_id |-> 0, tracklet_len |-> 0, start_frame |-> 0,
      time_since_update |-> 0 ]

\* STrack.update
STrack_update(t, new_track, frame_id) ==
    [ t EXCEPT !.tlwh = new_track.tlwh,
               !.score = new_track.score,
               !.frame_id = frame_id,
               !.tracklet_len = @ + 1,
               !.time_since_update = 0,
               !.state = IF @ = "new" THEN "tracked" ELSE @,
               !.is_activated = TRUE ]

\* STrack.predict
STrack_predict(t) ==
    [ t EXCEPT !.time_since_update = @ + 1,
               !.state = IF t.time_since_update + 1 > 1 THEN "lost" ELSE @ ]

\* STrack.activate
STrack_activate(t, frame_id, track_id) ==
    [ t EXCEPT !.track_id = track_id, !.start_frame = frame_id,
               !.frame_id = frame_id, !.is_activated = TRUE,
               !.state = "tracked" ]

\* STrack.mark_lost / STrack.mark_removed
STrack_mark_lost(t) == [t EXCEPT !.state = "lost"]
STrack_mark_removed(t) == [t EXCEPT !.state = "removed"]

-----------------------------------------------------------------------------
(* bytetrack_tracker.py : ByteTracker._associate *)

\* the result of an association call
AssocResult(matched, unmatched_dets, unmatched_trks) ==
    [ matched |-> matched, unmatched_dets |-> unmatched_dets,
      unmatched_trks |-> unmatched_trks ]

\* the call did not return: list.remove(x) of an x that is not in the list
ValueError == [raised |-> "ValueError"]

\* iou_matrix[t, d] over the boxes of tracks and detections (both tlwh)
iou_matrix(tracks, detections) ==
    [t \in 1..Len(tracks) |->
        [d \in 1..Len(detections) |->
            iou(tlbr(tracks[t].tlwh), tlbr(detections[d].tlwh))]]

\* One scan of the double loop at lines 232-241: the first pair, in
\* track-major order, whose IoU is strictly above everything before it.
\* best = <<max_iou, max_track_idx, max_det_idx>>, starting at <<0.0, -1, -1>>.
RECURSIVE GreedyScan(_, _, _, _, _)
GreedyScan(m, uts, uds, k, best) ==
    IF k > Len(uts) * Len(uds) THEN best
    ELSE LET t == uts[((k - 1) \div Len(uds)) + 1]
             d == uds[((k - 1) % Len(uds)) + 1]
         IN  GreedyScan(m, uts, uds, k + 1,
                        IF FracGT(m[t][d], best[1]) THEN <<m[t][d], t, d>>
                        ELSE best)

\* the while loop with a slip: the matched detection is not taken out of
\* unmatched_detections
RECURSIVE GreedyLoopDetectionKept(_, _, _, _, _)
GreedyLoopDetectionKept(m, thresh, matched, uts, uds) ==
    IF Len(uts) = 0 \/ Len(uds) = 0
    THEN AssocResult(matched, uds, uts)
    ELSE LET best == GreedyScan(m, uts, uds, 1, <<(<<0, 1>>), -1, -1>>)
         IN  IF FracGEPct(best[1], thresh)
             THEN IF best[2] = -1
                  THEN ValueError
                  ELSE GreedyLoopDetectionKept(m, thresh,
                                  Append(matched, <<best[2], best[3]>>),
                                  RemoveFirst(uts, best[2]), uds)
             ELSE AssocResult(matched, uds, uts)

\* the while loop at lines 230-249
RECURSIVE GreedyLoop(_, _, _, _, _)
GreedyLoop(m, thresh, matched, uts, uds) ==
    IF Len(uts) = 0 \/ Len(uds) = 0
    THEN AssocResult(matched, uds, uts)
    ELSE LET best == GreedyScan(m, uts, uds, 1, <<(<<0, 1>>), -1, -1>>)
         IN  IF FracGEPct(best[1], thresh)
             THEN IF best[2] = -1
                  THEN \* unmatched_tracks.remove(-1)
                       ValueError
                  ELSE GreedyLoop(m, thresh,
                                  Append(matched, <<best[2], best[3]>>),
                                  RemoveFirst(uts, best[2]),
                                  RemoveFirst(uds, best[3]))
             ELSE AssocResult(matched, uds, uts)

\* ByteTracker._associate(tracks, detections, thresh); thresh in percent
ByteTracker_associate(tracks, detections, thresh) ==
    IF Len(tracks) = 0 \/ Len(detections) = 0
    THEN AssocResult(<<>>, Iota(Len(detections)), Iota(Len(tracks)))
    ELSE GreedyLoop(iou_matrix(tracks, detections), thresh, <<>>,
                    Iota(Len(tracks)), Iota(Len(detections)))

-----------------------------------------------------------------------------
(* bytetrack_tracker.py : ByteTracker.update / reset *)

\* ByteTracker.__init__ (and the state reset() restores)
ByteTracker_init ==
    [ frame_id |-> 0, tracked_stracks |-> <<>>, lost_stracks |-> <<>>,
      removed_stracks |-> <<>>, track_id_count |-> 0,
      total_tracks_created |-> 0 ]

\* lines 131-142: detections become STracks; those below track_thresh are
\* not kept at all
RECURSIVE BT_detected_stracks(_, _)
BT_detected_stracks(detections, track_thresh) ==
    IF detections = <<>> THEN <<>>
    ELSE LET det == Head(detections)
         IN  (IF det.score >= track_thresh
              THEN <<STrack(to_tlwh(det.box), det.score)>> ELSE <<>>)
             \o BT_detected_stracks(Tail(detections), track_thresh)

\* "for m in matched: track.update(det, frame_id)" (tracked: sets no state;
\* lost: also sets state = 'tracked'), applied pair by pair
RECURSIVE BT_apply_matches(_, _, _, _, _)
BT_apply_matches(tracks, dets, matched, frame_id, relabel) ==
    IF matched = <<>> THEN tracks
    ELSE LET m == Head(matched)
             u == STrack_update(tracks[m[1]], dets[m[2]], frame_id)
             v == IF relabel THEN [u EXCEPT !.state = "tracked"] ELSE u
         IN  BT_apply_matches([tracks EXCEPT ![m[1]] = v], dets,
                              Tail(matched), frame_id, relabel)

\* lines 186-192: unmatched tracks become lost, or removed when stale
RECURSIVE BT_handle_unmatched(_, _)
BT_handle_unmatched(tracks, unmatched_trks) ==
    IF unmatched_trks = <<>> THEN tracks
    ELSE LET i == Head(unmatched_trks)
             t == tracks[i]
             u == IF t.time_since_update <= 1 THEN STrack_mark_lost(t)
                  ELSE STrack_mark_removed(t)
         IN  BT_handle_unmatched([tracks EXCEPT ![i] = u], Tail(unmatched_trks))

\* lines 194-201: new tracks from the detections left over; returns the
\* tracked list and the id counter
RECURSIVE BT_create(_, _, _, _, _, _)
BT_create(tracked, count, dets, unmatched, frame_id, track_thresh) ==
    IF unmatched = <<>> THEN [tracked |-> tracked, count |-> count]
    ELSE LET det == dets[Head(unmatched)]
         IN  IF det.score >= track_thresh
             THEN BT_create(
                    Append(tracked,
                           STrack_activate(STrack(det.tlwh, det.score),
                                           frame_id, count + 1)),
                    count + 1, dets, Tail(unmatched), frame_id, track_thresh)
             ELSE BT_create(tracked, count, dets, Tail(unmatched), frame_id,
                            track_thresh)

StateIs(tracks, st) == SelectSeq(tracks, LAMBDA t : t.state = st)

MapPredict(tracks) == [i \in 1..Len(tracks) |-> STrack_predict(tracks[i])]

\* ByteTracker.update(detections, scores): the whole call.  The result has
\* the new engine fields and what the call did.
ByteTracker_update_result(b, c, detections) ==
    LET frame_id == b.frame_id + 1
        detected_stracks == BT_detected_stracks(detections, c.track_thresh)
        high_score_dets ==
            IF c.mot20
            THEN SelectSeq(detected_stracks, LAMBDA t : t.score >= c.track_thresh)
            ELSE detected_stracks
        low_score_dets ==
            IF c.mot20
            THEN SelectSeq(detected_stracks,
                           LAMBDA t : t.score < c.track_thresh /\ t.score >= 10)
            ELSE <<>>
        \* predict
        tracked0 == MapPredict(b.tracked_stracks)
        lost0 == MapPredict(b.lost_stracks)
        \* first association
        a1 == ByteTracker_associate(tracked0, high_score_dets, c.match_thresh)
        tracked1 == BT_apply_matches(tracked0, high_score_dets, a1.matched,
                                     frame_id, FALSE)
        \* second association
        unmatched_dets_low == Pick(high_score_dets, a1.unmatched_dets)
                              \o low_score_dets
        lost_idx == IndicesWhere([i \in 1..Len(lost0) |-> lost0[i].state = "lost"])
        lost_stracks == Pick(lost0, lost_idx)
        a2 == ByteTracker_associate(lost_stracks, unmatched_dets_low, 50)
        lost_upd == BT_apply_matches(lost_stracks, unmatched_dets_low,
                                     a2.matched, frame_id, TRUE)
        \* lost_stracks holds the same objects as self.lost_stracks
        lost1 == [i \in 1..Len(lost0) |->
                    IF \E k \in 1..Len(lost_idx) : lost_idx[k] = i
                    THEN lost_upd[CHOOSE k \in 1..Len(lost_idx) : lost_idx[k] = i]
                    ELSE lost0[i]]
        tracked2 == BT_handle_unmatched(tracked1, a1.unmatched_trks)
        cr == BT_create(tracked2, b.track_id_count, unmatched_dets_low,
                        a2.unmatched_dets, frame_id, c.track_thresh)
        \* lines 203-209, in the order of the source
        new_tracked == StateIs(cr.tracked, "tracked")
        new_lost == StateIs(new_tracked \o lost1, "lost")
        new_removed == b.removed_stracks
                       \o StateIs(new_tracked \o new_lost, "removed")
        kept_lost == SelectSeq(new_lost,
                        LAMBDA t : frame_id - t.frame_id <= c.track_buffer)
    IN  IF "raised" \in DOMAIN a1
        THEN \* the exception leaves update() after line 125 and the
             \* predict() calls of lines 152-154 have taken effect
             [ fields |-> [b EXCEPT !.frame_id = frame_id,
                                    !.tracked_stracks = tracked0,
                                    !.lost_stracks = lost0],
               raised |-> a1.raised,
               dets |-> high_score_dets \o low_score_dets,
               assoc |-> <<a1>>,
               marked |-> <<>>,
               created |-> {},
               returned |-> <<>> ]
        ELSE
        [ fields |->
            [ frame_id |-> frame_id, tracked_stracks |-> new_tracked,
              lost_stracks |-> kept_lost, removed_stracks |-> new_removed,
              track_id_count |-> cr.count,
              total_tracks_created |->
                  b.total_tracks_created + (cr.count - b.track_id_count) ],
          raised |-> "none",
          dets |-> high_score_dets \o low_score_dets,
          assoc |-> <<a1, a2>>,
          marked |-> tracked2,
          created |-> (b.track_id_count + 1)..cr.count,
          returned |-> [i \in 1..Len(new_tracked) |-> new_tracked[i].track_id] ]

-----------------------------------------------------------------------------
(* ocsort_tracker.py : OCTrack *)

\* Appearance.  An image region is known by what it shows: "a", "b", or
\* "none" when there is no region (no frame, or an empty crop).  Its
\* descriptor is the colour histogram of the region; HistSimilarity is
\* 1 - Bhattacharyya distance of two descriptors, in percent: identical
\* histograms are at distance 0, histograms of disjoint colours at 1.
HistSimilarity(h1, h2) == IF h1 = h2 THEN 100 ELSE 0

\* "if len(self.appearance_features) > 5"
FeaturesKept == 5

\* "image_crop is None or image_crop.size == 0": no region ("none") or a
\* region without pixels ("empty")
NoRegion == {"none", "empty"}

\* OCTrack.update_appearance(image_crop) keeping the first descriptors
update_appearance_first_kept(features, crop) ==
    IF crop \in NoRegion THEN features
    ELSE LET f == Append(features, crop)
         IN  IF Len(f) > FeaturesKept THEN SubSeq(f, 1, FeaturesKept) ELSE f

\* OCTrack.update_appearance(image_crop) on the list of descriptors
update_appearance(features, crop) ==
    IF crop \in NoRegion THEN features
    ELSE LET f == Append(features, crop)
         IN  IF Len(f) > FeaturesKept
             THEN SubSeq(f, Len(f) - FeaturesKept + 1, Len(f))
             ELSE f

LastTwo(f) == IF Len(f) > 2 THEN SubSeq(f, Len(f) - 1, Len(f)) ELSE f

\* the largest member of a non-empty set of integers
MaxOf(S) == CHOOSE x \in S : \A y \in S : y <= x

\* the similarity with a slip: tracks without descriptors look alike
calculate_appearance_similarity_blank(mine, others) ==
    IF mine = <<>> \/ others = <<>> THEN 100
    ELSE MaxOf({0} \cup {HistSimilarity(m, o) :
                            m \in Range(LastTwo(mine)),
                            o \in Range(LastTwo(others))})

\* OCTrack.calculate_appearance_similarity(other), in percent
calculate_appearance_similarity(mine, others) ==
    IF mine = <<>> \/ others = <<>> THEN 0
    ELSE MaxOf({0} \cup {HistSimilarity(m, o) :
                            m \in Range(LastTwo(mine)),
                            o \in Range(LastTwo(others))})

ZeroVec == <<0, 0, 0, 0>>

\* the constructor with a slip: the creating detection counts as a first
\* observation
OCTrack_counted(tlwh, score, crop) ==
    [ tlwh |-> tlwh, score |-> score, track_id |-> 0, is_activated |-> FALSE,
      state |-> "new", frame_id |-> 0, tracklet_len |-> 0, start_frame |-> 0,
      kf_x |-> tlwh, kf_v |-> ZeroVec,
      observations |-> <<>>, observation_count |-> 1,
      time_since_update |-> 0, occlusion_count |-> 0,
      max_occlusion_frames |-> max_occlusion_frames,
      appearance_features |-> update_appearance(<<>>, crop) ]

\* OCTrack.__init__(tlwh, score, image_crop): the filter starts at the box
\* with zero velocity (_init_kalman_filter)
OCTrack(tlwh, score, crop) ==
    [ tlwh |-> tlwh, score |-> score, track_id |-> 0, is_activated |-> FALSE,
      state |-> "new", frame_id |-> 0, tracklet_len |-> 0, start_frame |-> 0,
      kf_x |-> tlwh, kf_v |-> ZeroVec,
      observations |-> <<>>, observation_count |-> 0,
      time_since_update |-> 0, occlusion_count |-> 0,
      max_occlusion_frames |-> max_occlusion_frames,
      appearance_features |-> update_appearance(<<>>, crop) ]

\* Velocities.  The filter's numbers are reals; the model keeps the velocity
\* of each coordinate as -1, 0 or +1 box units per frame.
Sign(n) == IF n > 0 THEN 1 ELSE IF n < 0 THEN -1 ELSE 0
Between(a, b) == Min(a, b)..Max(a, b)
Clip(v) == Max(-1, Min(1, v))

\* kalman_filter.predict(): x = F x, the position advances by the velocity
KF_predict_x(t) == [c \in 1..4 |-> t.kf_x[c] + t.kf_v[c]]

\* _apply_oos(): the mean of (pos[i] - pos[i-1]) / dt over the last five
\* observations replaces the x and y velocity.  dt is wall-clock time, so a
\* coordinate that moved gets a velocity whose size is not determined by
\* the detections: any value of the velocity range with a sign some
\* displacement has (0 stands for a slow one).  A coordinate that did not
\* move gets exactly 0.
OOSVelocities(t) ==
    LET obs == t.observations
        recent == IF Len(obs) > 5 THEN SubSeq(obs, Len(obs) - 4, Len(obs)) ELSE obs
        disp(c) == {recent[i][c] - recent[i - 1][c] : i \in 2..Len(recent)}
        choice(c) == {0} \cup {Sign(d) : d \in disp(c)}
    IN  IF Len(obs) > 1
        THEN {<<vx, vy, t.kf_v[3], t.kf_v[4]>> : vx \in choice(1), vy \in choice(2)}
        ELSE {t.kf_v}

\* kalman_filter.update(z): x = x + K (z - H x).  With zero residual in a
\* coordinate nothing changes there.  Otherwise the position is drawn to the
\* measurement (the gain on position is taken as 1) and the velocity moves
\* towards the residual by an amount the gain decides: any value of the
\* velocity range between the old velocity and old velocity + residual.
KFPosteriors(t, z) ==
    LET r == [c \in 1..4 |-> z[c] - t.kf_x[c]]
        vset(c) == IF r[c] = 0 THEN {t.kf_v[c]}
                   ELSE Between(Clip(t.kf_v[c]), Clip(t.kf_v[c] + r[c]))
    IN  {[x |-> z, v |-> <<v1, v2, v3, v4>>] :
            v1 \in vset(1), v2 \in vset(2), v3 \in vset(3), v4 \in vset(4)}

\* OCTrack.predict(), given the velocity the smoothing step produced
OCTrack_predict(t, v) ==
    LET x == KF_predict_x(t)
        tsu == t.time_since_update + 1
    IN  [ t EXCEPT !.kf_x = x, !.kf_v = v, !.tlwh = x,
                   !.time_since_update = tsu,
                   !.state = IF tsu > 1 THEN "lost" ELSE @,
                   !.occlusion_count = IF tsu > 1 THEN @ + 1 ELSE @ ]

\* OCTrack.update with a slip: the frame of the update is not recorded
OCTrack_update_stale(t, new_track, frame_id, post) ==
    [ t EXCEPT !.tlwh = new_track.tlwh,
               !.score = new_track.score,
               !.tracklet_len = @ + 1,
               !.time_since_update = 0,
               !.occlusion_count = 0,
               !.kf_x = post.x, !.kf_v = post.v,
               !.observations =
                   LET o == Append(@, new_track.tlwh)
                   IN  IF Len(o) > ObsKept THEN Tail(o) ELSE o,
               !.observation_count = @ + 1,
               !.state = IF @ = "new" THEN "tracked"
                         ELSE IF @ = "lost" THEN "tracked" ELSE @,
               !.is_activated = TRUE ]

\* OCTrack.update(new_track, frame_id), given the filter's posterior
OCTrack_update(t, new_track, frame_id, post) ==
    [ t EXCEPT !.tlwh = new_track.tlwh,
               !.score = new_track.score,
               !.frame_id = frame_id,
               !.tracklet_len = @ + 1,
               !.time_since_update = 0,
               !.occlusion_count = 0,
               !.kf_x = post.x, !.kf_v = post.v,
               !.observations =
                   LET o == Append(@, new_track.tlwh)
                   IN  IF Len(o) > ObsKept THEN Tail(o) ELSE o,
               !.observation_count = @ + 1,
               !.state = IF @ = "new" THEN "tracked"
                         ELSE IF @ = "lost" THEN "tracked" ELSE @,
               !.is_activated = TRUE ]

\* activate with a slip: the state is left as it was
OCTrack_activate_stateless(t, frame_id, track_id) ==
    [ t EXCEPT !.track_id = track_id, !.start_frame = frame_id,
               !.frame_id = frame_id, !.is_activated = TRUE ]

\* OCTrack.activate
OCTrack_activate(t, frame_id, track_id) ==
    [ t EXCEPT !.track_id = track_id, !.start_frame = frame_id,
               !.frame_id = frame_id, !.is_activated = TRUE,
               !.state = "tracked" ]

\* OCTrack.mark_lost / OCTrack.mark_removed
OCTrack_mark_lost(t) == [t EXCEPT !.state = "lost"]
OCTrack_mark_removed(t) == [t EXCEPT !.state = "removed"]

-----------------------------------------------------------------------------
(* ocsort_tracker.py : OCSort._associate *)

\* all sequences of k distinct members of S
RECURSIVE Injections(_, _)
Injections(k, S) ==
    IF k = 0 THEN {<<>>}
    ELSE UNION {{<<x>> \o r : r \in Injections(k - 1, S \ {x})} : x \in S}

\* the complete assignments of an n x m matrix: min(n, m) pairs <<row, col>>,
\* listed by ascending row as linear_sum_assignment returns them
Assignments(n, m) ==
    IF n <= m
    THEN {[i \in 1..n |-> <<i, f[i]>>] : f \in Injections(n, 1..m)}
    ELSE LET rowsets == {R \in SUBSET (1..n) : Cardinality(R) = m}
             ordered(R) == CHOOSE q \in Injections(m, R) :
                              \A i \in 1..(m - 1) : q[i] < q[i + 1]
         IN  UNION {{[i \in 1..m |-> <<ordered(R)[i], g[i]>>] :
                        g \in Injections(m, 1..m)} : R \in rowsets}

\* the sum of the IoUs of an assignment, as a fraction
RECURSIVE TotalIou(_, _)
TotalIou(m, a) ==
    IF a = <<>> THEN <<0, 1>>
    ELSE LET e == m[Head(a)[1]][Head(a)[2]]
             r == TotalIou(m, Tail(a))
         IN  <<e[1] * r[2] + r[1] * e[2], e[2] * r[2]>>

\* the solver with a slip: any complete assignment, maximal or not
linear_sum_assignment_any(m, n_rows, n_cols) == Assignments(n_rows, n_cols)

\* linear_sum_assignment(-iou_matrix): an assignment of maximal total IoU.
\* Which one it returns among several of equal total is the solver's
\* business; the model allows each.
linear_sum_assignment(m, n_rows, n_cols) ==
    LET all == Assignments(n_rows, n_cols)
    IN  {a \in all : \A b \in all : FracGE(TotalIou(m, a), TotalIou(m, b))}

\* lines 463-474: keep the pairs at or above the threshold
RECURSIVE OC_filter(_, _, _, _)
OC_filter(m, a, thresh, acc) ==
    IF a = <<>> THEN acc
    ELSE LET row == Head(a)[1]
             col == Head(a)[2]
         IN  IF FracGEPct(m[row][col], thresh)
             THEN OC_filter(m, Tail(a), thresh,
                    AssocResult(Append(acc.matched, <<row, col>>),
                                RemoveFirst(acc.unmatched_dets, col),
                                RemoveFirst(acc.unmatched_trks, row)))
             ELSE OC_filter(m, Tail(a), thresh, acc)

\* OCSort._associate(tracks, detections, iou_threshold): the set of results
\* the solver's choice allows
OCSort_associate(tracks, detections, thresh) ==
    LET none == AssocResult(<<>>, Iota(Len(detections)), Iota(Len(tracks)))
    IN  IF Len(tracks) = 0 \/ Len(detections) = 0 THEN {none}
        ELSE LET m == iou_matrix(tracks, detections)
             IN  {OC_filter(m, a, thresh, none) :
                    a \in linear_sum_assignment(m, Len(tracks), Len(detections))}

-----------------------------------------------------------------------------
(* ocsort_tracker.py : OCSort.update / reset *)

\* Track objects live in oc.heap under their identifier; the pools are lists
\* of references, so one object can sit in a pool twice or in both pools.

\* OCSort.__init__ (and the state reset() restores)
OCSort_init ==
    [ frame_id |-> 0, heap |-> <<>>, tracks |-> <<>>,
      disappeared_tracks |-> <<>>, track_id_count |-> 0,
      total_tracks_created |-> 0, reid_matches |-> 0 ]

\* the conversion with a slip: the test of the score against det_thresh is
\* left out
RECURSIVE OC_detected_stracks_all(_, _)
OC_detected_stracks_all(detections, det_thresh) ==
    IF detections = <<>> THEN <<>>
    ELSE LET det == Head(detections)
         IN  <<OCTrack(to_tlwh(det.box), det.score, det.crop)>>
             \o OC_detected_stracks_all(Tail(detections), det_thresh)

\* lines 300-315: detections become OCTracks carrying the appearance of
\* their crop; those below det_thresh are not kept at all
RECURSIVE OC_detected_stracks(_, _)
OC_detected_stracks(detections, det_thresh) ==
    IF detections = <<>> THEN <<>>
    ELSE LET det == Head(detections)
         IN  (IF det.score >= det_thresh
              THEN <<OCTrack(to_tlwh(det.box), det.score, det.crop)>>
              ELSE <<>>)
             \o OC_detected_stracks(Tail(detections), det_thresh)

\* _extract_crop(frame, det.tlbr): the region the detection was built from
extract_crop(det) ==
    IF det.appearance_features = <<>> THEN "none"
    ELSE det.appearance_features[1]

\* the objects a list of references denotes
Deref(h, ids) == [i \in 1..Len(ids) |-> h[ids[i]]]

\* "for track in self.tracks: track.predict()", one after the other
RECURSIVE OC_predict_all(_, _)
OC_predict_all(h, ids) ==
    IF ids = <<>> THEN {h}
    ELSE UNION {OC_predict_all(
                    [h EXCEPT ![Head(ids)] = OCTrack_predict(h[Head(ids)], v)],
                    Tail(ids))
                : v \in OOSVelocities(h[Head(ids)])}

\* "for m in matched: track.update(det, frame_id); track.update_appearance(crop)"
\* (stage 2 also sets state = 'tracked')
RECURSIVE OC_apply_matches(_, _, _, _, _, _)
OC_apply_matches(h, ids, dets, matched, frame_id, relabel) ==
    IF matched = <<>> THEN {h}
    ELSE LET id == ids[Head(matched)[1]]
             det == dets[Head(matched)[2]]
             upd(post) ==
                 LET u == OCTrack_update(h[id], det, frame_id, post)
                 IN  [u EXCEPT !.state = IF relabel THEN "tracked" ELSE @,
                               !.appearance_features =
                                   update_appearance(@, extract_crop(det))]
         IN  UNION {OC_apply_matches([h EXCEPT ![id] = upd(post)], ids, dets,
                                     Tail(matched), frame_id, relabel)
                    : post \in KFPosteriors(h[id], det.tlwh)}

\* lines 344-352 without the test of line 351: every removed track joins
\* the disappeared pool
RECURSIVE OC_handle_unmatched_all(_, _, _, _, _)
OC_handle_unmatched_all(h, disappeared, ids, unmatched_trks, min_hits) ==
    IF unmatched_trks = <<>> THEN [heap |-> h, disappeared |-> disappeared]
    ELSE LET id == ids[Head(unmatched_trks)]
             t == h[id]
         IN  IF t.occlusion_count < t.max_occlusion_frames
             THEN OC_handle_unmatched_all(
                    [h EXCEPT ![id] = OCTrack_mark_lost(t)],
                    disappeared, ids, Tail(unmatched_trks), min_hits)
             ELSE OC_handle_unmatched_all(
                    [h EXCEPT ![id] = OCTrack_mark_removed(t)],
                    Append(disappeared, id),
                    ids, Tail(unmatched_trks), min_hits)

\* lines 344-352: an unmatched track is lost within its occlusion budget,
\* else removed, and joins the disappeared pool if it has enough hits
RECURSIVE OC_handle_unmatched(_, _, _, _, _)
OC_handle_unmatched(h, disappeared, ids, unmatched_trks, min_hits) ==
    IF unmatched_trks = <<>> THEN [heap |-> h, disappeared |-> disappeared]
    ELSE LET id == ids[Head(unmatched_trks)]
             t == h[id]
         IN  IF t.occlusion_count < t.max_occlusion_frames
             THEN OC_handle_unmatched([h EXCEPT ![id] = OCTrack_mark_lost(t)],
                                      disappeared, ids, Tail(unmatched_trks),
                                      min_hits)
             ELSE OC_handle_unmatched(
                    [h EXCEPT ![id] = OCTrack_mark_removed(t)],
                    IF t.observation_count >= min_hits
                    THEN Append(disappeared, id) ELSE disappeared,
                    ids, Tail(unmatched_trks), min_hits)

\* what the loop above finds on each unmatched track, in its order
OC_unmatched(h, ids, unmatched_trks) ==
    [k \in 1..Len(unmatched_trks) |->
        LET t == h[ids[unmatched_trks[k]]]
        IN  [ id |-> t.track_id, occlusion_count |-> t.occlusion_count,
              budget |-> t.max_occlusion_frames,
              hits |-> t.observation_count ]]

\* the tracks the loop above sends to the disappeared pool, as they are
\* at that moment
OC_removed(h, ids, unmatched_trks, min_hits) ==
    LET sent == {ids[unmatched_trks[k]] : k \in 1..Len(unmatched_trks)}
    IN  [id \in {i \in sent : /\ h[i].occlusion_count >= h[i].max_occlusion_frames
                               /\ h[i].observation_count >= min_hits}
            |-> OCTrack_mark_removed(h[id])]

\* _calculate_position_distance of two centres, squared, on doubled centres
Dist2Sq(c1, c2) ==
    (c1[1] - c2[1]) * (c1[1] - c2[1]) + (c1[2] - c2[2]) * (c1[2] - c2[2])

\* the integer square root
ISqrt(n) == CHOOSE r \in 0..n : r * r <= n /\ (r + 1) * (r + 1) > n

\* line 391: combined_sim = appearance_sim * 0.8
\*                          + (1 - min(pos_distance / 200, 1)) * 0.2,
\* times 2000: 16 * appearance% + 400 - min(2 * distance, 400).  The boxes
\* of the model differ in x only, so twice the distance is a whole number.
combined_sim(det, track) ==
    LET d2 == ISqrt(Dist2Sq(center2(det.tlwh), center2(track.tlwh)))
        appearance_sim ==
            calculate_appearance_similarity(track.appearance_features,
                                            det.appearance_features)
    IN  16 * appearance_sim + 400 - Min(d2, 400)

\* line 387: pos_distance < 200
within_gate(det, track) ==
    Dist2Sq(center2(det.tlwh), center2(track.tlwh)) < 400 * 400

\* the scan with a slip: the distance gate is not applied
RECURSIVE OC_best_match_ungated(_, _, _, _)
OC_best_match_ungated(h, det, pool, best) ==
    IF pool = <<>> THEN best
    ELSE LET id == Head(pool)
             c == combined_sim(det, h[id])
         IN  OC_best_match_ungated(h, det, Tail(pool),
                IF c > best[2] /\ c > 1200 THEN <<id, c>> ELSE best)

\* lines 381-395: the scan of the disappeared pool for one detection;
\* best = <<best_match, best_similarity>>, <<0, 0>> for (None, 0)
RECURSIVE OC_best_match(_, _, _, _)
OC_best_match(h, det, pool, best) ==
    IF pool = <<>> THEN best
    ELSE LET id == Head(pool)
             c == combined_sim(det, h[id])
         IN  OC_best_match(h, det, Tail(pool),
                IF within_gate(det, h[id]) /\ c > best[2] /\ c > 1200
                THEN <<id, c>> ELSE best)

\* OCTrack.__eq__ is the one @dataclass generates for a class that declares
\* no fields: any two tracks compare equal
OCTrack_eq(a, b) == TRUE

\* self.disappeared_tracks.remove(best_match): list.remove drops the first
\* entry that compares equal to its argument
RECURSIVE list_remove(_, _)
list_remove(pool, x) ==
    IF pool = <<>> THEN <<>>
    ELSE IF OCTrack_eq(Head(pool), x) THEN Tail(pool)
    ELSE <<Head(pool)>> \o list_remove(Tail(pool), x)

\* line 379 / 418-421: the detection an index of the final list denotes
OC_det_at(high, low, i) ==
    IF i <= Len(high) THEN high[i] ELSE low[i - Len(high)]

\* lines 377-414: re-identification of the detections left over.
\* c = [heap, tracks, disappeared, reid_matches, remaining, log]
RECURSIVE OC_reid(_, _, _, _, _)
OC_reid(c, high, low, final_unmatched, frame_id) ==
    IF final_unmatched = <<>> THEN {c}
    ELSE LET det_idx == Head(final_unmatched)
             det == OC_det_at(high, low, det_idx)
             best == OC_best_match(c.heap, det, c.disappeared, <<0, 0>>)
             id == best[1]
             entry == [ det |-> det_idx, pool |-> c.disappeared, match |-> id,
                        candidates |->
                            [i \in 1..Len(c.disappeared) |->
                                LET t == c.heap[c.disappeared[i]]
                                IN  [ id |-> t.track_id,
                                      gated |-> within_gate(det, t),
                                      sim |-> combined_sim(det, t) ]] ]
             reinstate(post) ==
                 LET u == OCTrack_update(c.heap[id], det, frame_id, post)
                 IN  [u EXCEPT !.state = "tracked", !.occlusion_count = 0,
                               !.appearance_features =
                                   update_appearance(@, extract_crop(det))]
         IN  IF id # 0
             THEN UNION {OC_reid(
                            [c EXCEPT !.heap = [@ EXCEPT ![id] = reinstate(post)],
                                      !.tracks = Append(@, id),
                                      !.disappeared = list_remove(@, id),
                                      !.reid_matches = @ + 1,
                                      !.log = Append(@, entry)],
                            high, low, Tail(final_unmatched), frame_id)
                         : post \in KFPosteriors(c.heap[id], det.tlwh)}
             ELSE OC_reid([c EXCEPT !.remaining = Append(@, det_idx),
                                    !.log = Append(@, entry)],
                          high, low, Tail(final_unmatched), frame_id)

\* lines 416-432: new tracks for the detections still left
RECURSIVE OC_create(_, _, _, _, _, _, _, _)
OC_create(h, tracks, count, high, low, remaining, frame_id, det_thresh) ==
    IF remaining = <<>> THEN [heap |-> h, tracks |-> tracks, count |-> count]
    ELSE LET det == OC_det_at(high, low, Head(remaining))
             new_track ==
                 [OCTrack_activate(OCTrack(det.tlwh, det.score, "none"),
                                   frame_id, count + 1)
                    EXCEPT !.appearance_features =
                               update_appearance(@, extract_crop(det))]
         IN  IF det.score >= det_thresh
             THEN OC_create((count + 1 :> new_track) @@ h,
                            Append(tracks, count + 1), count + 1, high, low,
                            Tail(remaining), frame_id, det_thresh)
             ELSE OC_create(h, tracks, count, high, low, Tail(remaining),
                            frame_id, det_thresh)

\* the references of a list whose object passes a test on its state
OC_in_state(h, ids, st) == SelectSeq(ids, LAMBDA id : h[id].state = st)

\* lines 354-374: the second association, entered only when use_byte is
\* set and there are low-score detections.  Gives the heaps it can produce,
\* each with the final list of unmatched detection indices.
OC_second_stage(h, tracks, high, low, unmatched_dets, c, frame_id) ==
    IF c.use_byte /\ Len(low) > 0
    THEN LET unmatched_dets_low == Pick(high, unmatched_dets) \o low
             lost_tracks == OC_in_state(h, tracks, "lost")
         IN  UNION {{[heap |-> h2, final |-> a2.unmatched_dets, assoc |-> <<a2>>]
                       : h2 \in OC_apply_matches(h, lost_tracks, unmatched_dets_low,
                                                 a2.matched, frame_id, TRUE)}
                    : a2 \in OCSort_associate(Deref(h, lost_tracks),
                                              unmatched_dets_low, 50)}
    ELSE {[heap |-> h, final |-> unmatched_dets, assoc |-> <<>>]}

\* the returned list with a slip: the test on the hit count is left out
OC_confirmed_ungated(h, tracks, min_hits) ==
    SelectSeq(tracks, LAMBDA id : h[id].state = "tracked")

\* line 444: the tracks returned, Tracked and with enough observations
OC_confirmed(h, tracks, min_hits) ==
    SelectSeq(tracks, LAMBDA id : /\ h[id].state = "tracked"
                                  /\ h[id].observation_count >= min_hits)

\* lines 434-444 on the outcome of the steps before: clean-up and the list
\* returned.  Objects no pool refers to any more are gone.
OC_finish(o, c, high, low, count0, s1, assoc2, frame_id) ==
    LET cr == OC_create(o.heap, o.tracks, count0, high, low, o.remaining,
                        frame_id, c.det_thresh)
        tracks == SelectSeq(cr.tracks, LAMBDA id : cr.heap[id].state # "removed")
        disappeared ==
            SelectSeq(o.disappeared,
                      LAMBDA id : frame_id - cr.heap[id].frame_id <= c.max_age)
        live == Range(tracks) \cup Range(disappeared)
        confirmed == OC_confirmed(cr.heap, tracks, c.min_hits)
    IN  [ fields |->
            [ frame_id |-> frame_id,
              heap |-> [id \in live |-> cr.heap[id]],
              tracks |-> tracks,
              disappeared_tracks |-> disappeared,
              track_id_count |-> cr.count,
              total_tracks_created |-> cr.count,
              reid_matches |-> o.reid_matches ],
          dets |-> high \o low,
          predicted |-> s1.predicted,
          removed |-> s1.removed,
          unmatched |-> s1.unmatched,
          pooled |-> s1.pooled,
          assoc |-> <<s1.a1>> \o assoc2,
          reid |-> o.log,
          created |-> (count0 + 1)..cr.count,
          returned |-> confirmed ]

\* OCSort.update(detections, scores, frame): every outcome of the whole call
OCSort_update_results(o, c, detections) ==
    LET frame_id == o.frame_id + 1
        detected_stracks == OC_detected_stracks(detections, c.det_thresh)
        high == SelectSeq(detected_stracks, LAMBDA t : t.score >= c.det_thresh)
        low == IF c.use_byte
               THEN SelectSeq(detected_stracks,
                              LAMBDA t : t.score < c.det_thresh /\ t.score >= 10)
               ELSE <<>>
        \* after the first association and the handling of unmatched tracks
        stage1 ==
            UNION {UNION {{LET hu == OC_handle_unmatched(h2,
                                        o.disappeared_tracks, o.tracks,
                                        a1.unmatched_trks, c.min_hits)
                           IN [s1 |-> [a1 |-> a1, predicted |-> h1,
                                    removed |-> OC_removed(h2, o.tracks,
                                                   a1.unmatched_trks, c.min_hits),
                                    unmatched |-> OC_unmatched(h2, o.tracks,
                                                     a1.unmatched_trks),
                                    pooled |-> hu.disappeared],
                            hu |-> hu]
                             : h2 \in OC_apply_matches(h1, o.tracks, high,
                                                       a1.matched, frame_id, FALSE)}
                          : a1 \in OCSort_associate(Deref(h1, o.tracks), high,
                                                    c.iou_threshold)}
                   : h1 \in OC_predict_all(o.heap, o.tracks)}
        stage2 ==
            UNION {{[s1 |-> s1.s1, disappeared |-> s1.hu.disappeared, s2 |-> s2]
                      : s2 \in OC_second_stage(s1.hu.heap, o.tracks, high, low,
                                               s1.s1.a1.unmatched_dets, c, frame_id)}
                   : s1 \in stage1}
        reid ==
            UNION {{[s1 |-> s.s1, assoc2 |-> s.s2.assoc, o |-> r]
                      : r \in OC_reid([heap |-> s.s2.heap, tracks |-> o.tracks,
                                       disappeared |-> s.disappeared,
                                       reid_matches |-> o.reid_matches,
                                       remaining |-> <<>>, log |-> <<>>],
                                      high, low, s.s2.final, frame_id)}
                   : s \in stage2}
    IN  {OC_finish(r.o, c, high, low, o.track_id_count, r.s1, r.assoc2,
                   frame_id)
           : r \in reid}

-----------------------------------------------------------------------------
(* services/tracking.py : TrackingService *)

\* TrackingService.__init__; self.tracks maps an id to its box, age and
\* active flag (the random display colour is left out).  A dict keeps
\* insertion order, and ids are inserted in ascending order.
TrackingService_init == [tracks |-> <<>>, next_id |-> 1]

\* the ids of self.tracks in dict order
RECURSIVE Ascending(_)
Ascending(S) ==
    IF S = {} THEN <<>>
    ELSE LET m == CHOOSE x \in S : \A y \in S : x <= y
         IN  <<m>> \o Ascending(S \ {m})

\* lines 49-57: [x1, y1, x2, y2, conf] of a detection dict
TS_det_box(d) == <<d.x, d.y, d.x + d.width, d.y + d.height, d.confidence>>

\* _calculate_distance on tlbr boxes, doubled (the centres of the model's
\* boxes lie on one horizontal line, so the root is exact)
TS_distance2(box1, box2) ==
    ISqrt(Dist2Sq(<<box1[1] + box1[3], box1[2] + box1[4]>>,
                  <<box2[1] + box2[3], box2[2] + box2[4]>>))

\* line 71: cost = dist * (1 - iou * 0.7), as the fraction
\* <<2 dist * (10 union - 7 intersection), 20 union>>
TS_cost(t_box, d_box) ==
    LET f == iou(t_box, d_box)
    IN  <<TS_distance2(t_box, d_box) * (10 * f[2] - 7 * f[1]), 20 * f[2]>>

\* cost < bound for a whole number bound
FracLTInt(a, n) == a[1] < n * a[2]

\* lines 75-83: one scan for the cheapest free pair below max_distance, in
\* row-major order; best = <<min_cost, bt, bd>>, <<inf, -1, -1>> at the start
RECURSIVE TS_scan(_, _, _, _, _, _, _)
TS_scan(cost, n, m, at, ab, max_distance, k) ==
    IF k > n * m THEN <<-1, -1>>
    ELSE LET i == ((k - 1) \div m) + 1
             j == ((k - 1) % m) + 1
             rest == TS_scan(cost, n, m, at, ab, max_distance, k + 1)
             free == i \notin at /\ j \notin ab
                     /\ FracLTInt(cost[i][j], max_distance)
         IN  IF ~free THEN rest
             ELSE IF rest[1] = -1 THEN <<i, j>>
             ELSE IF FracGT(cost[i][j], cost[rest[1]][rest[2]]) THEN rest
             ELSE <<i, j>>

\* lines 74-92: the greedy rounds.  g = [tracks, assigned_tracks,
\* assigned_detections, pairs]
RECURSIVE TS_rounds(_, _, _, _, _, _)
TS_rounds(g, cost, track_ids, det_boxes, max_distance, rounds) ==
    IF rounds = 0 THEN g
    ELSE LET b == TS_scan(cost, Len(track_ids), Len(det_boxes),
                          g.assigned_tracks, g.assigned_detections,
                          max_distance, 1)
             tid == track_ids[b[1]]
         IN  IF b[1] # -1
             THEN TS_rounds(
                    [ tracks |-> [g.tracks EXCEPT
                                    ![tid] = [box |-> det_boxes[b[2]],
                                              age |-> 0, active |-> TRUE]],
                      assigned_tracks |-> g.assigned_tracks \cup {b[1]},
                      assigned_detections |-> g.assigned_detections \cup {b[2]},
                      pairs |-> Append(g.pairs, <<b[1], b[2]>>) ],
                    cost, track_ids, det_boxes, max_distance, rounds - 1)
             ELSE TS_rounds(g, cost, track_ids, det_boxes, max_distance,
                            rounds - 1)

\* lines 59-92: the association of self.tracks with det_boxes
TS_greedy(tracks, det_boxes, max_distance) ==
    LET track_ids == Ascending(DOMAIN tracks)
        cost == [i \in 1..Len(track_ids) |->
                    [j \in 1..Len(det_boxes) |->
                        TS_cost(SubSeq(tracks[track_ids[i]].box, 1, 4),
                                SubSeq(det_boxes[j], 1, 4))]]
        start == [ tracks |-> tracks, assigned_tracks |-> {},
                   assigned_detections |-> {}, pairs |-> <<>> ]
    IN  IF track_ids # <<>>
        THEN TS_rounds(start, cost, track_ids, det_boxes, max_distance,
                       Min(Len(track_ids), Len(det_boxes)))
        ELSE start

\* what the greedy rounds assigned: the pairs <<track index, detection
\* index>> in the order they were made, and the two assigned sets
TS_assigned(g) ==
    [ matched |-> g.pairs, assigned_tracks |-> g.assigned_tracks,
      assigned_detections |-> g.assigned_detections ]

\* lines 94-102 with a slip: a new track takes the lowest id no stored
\* track has, and next_id is left alone
RECURSIVE TS_create_reuse(_, _, _, _, _)
TS_create_reuse(tracks, next_id, det_boxes, assigned_detections, i) ==
    IF i > Len(det_boxes) THEN [tracks |-> tracks, next_id |-> next_id]
    ELSE IF i \notin assigned_detections
    THEN LET free == CHOOSE n \in 1..(Cardinality(DOMAIN tracks) + 1) :
                        /\ n \notin DOMAIN tracks
                        /\ \A m \in 1..(n - 1) : m \in DOMAIN tracks
         IN  TS_create_reuse((free :> [box |-> det_boxes[i], age |-> 0,
                                       active |-> TRUE]) @@ tracks,
                             next_id, det_boxes, assigned_detections, i + 1)
    ELSE TS_create_reuse(tracks, next_id, det_boxes, assigned_detections, i + 1)

\* lines 94-102 without the test of line 96: a new track for every detection
RECURSIVE TS_create_all(_, _, _, _, _)
TS_create_all(tracks, next_id, det_boxes, assigned_detections, i) ==
    IF i > Len(det_boxes) THEN [tracks |-> tracks, next_id |-> next_id]
    ELSE TS_create_all((next_id :> [box |-> det_boxes[i], age |-> 0,
                                    active |-> TRUE]) @@ tracks,
                       next_id + 1, det_boxes, assigned_detections, i + 1)

\* lines 94-102: a new track for every detection not assigned
RECURSIVE TS_create(_, _, _, _, _)
TS_create(tracks, next_id, det_boxes, assigned_detections, i) ==
    IF i > Len(det_boxes) THEN [tracks |-> tracks, next_id |-> next_id]
    ELSE IF i \notin assigned_detections
    THEN TS_create((next_id :> [box |-> det_boxes[i], age |-> 0,
                                active |-> TRUE]) @@ tracks,
                   next_id + 1, det_boxes, assigned_detections, i + 1)
    ELSE TS_create(tracks, next_id, det_boxes, assigned_detections, i + 1)

\* _format_results without the test of line 110: every stored track
TS_format_results_all(tracks) ==
    LET ids == Ascending(DOMAIN tracks)
    IN  [k \in 1..Len(ids) |->
            LET box == tracks[ids[k]].box
            IN  [ id |-> ids[k], x |-> box[1], y |-> box[2],
                  width |-> box[3] - box[1], height |-> box[4] - box[2],
                  confidence |-> box[5], active |-> tracks[ids[k]].active,
                  age |-> tracks[ids[k]].age ]]

\* _format_results listing the tracks from the last one to the first
TS_format_results_reversed(tracks) ==
    LET shown == {tid \in DOMAIN tracks :
                     tracks[tid].active \/ tracks[tid].age <= 5}
        ids == Ascending(shown)
    IN  [k \in 1..Len(ids) |->
            LET box == tracks[ids[Len(ids) + 1 - k]].box
            IN  [ id |-> ids[Len(ids) + 1 - k], x |-> box[1], y |-> box[2],
                  width |-> box[3] - box[1], height |-> box[4] - box[2],
                  confidence |-> box[5],
                  active |-> tracks[ids[Len(ids) + 1 - k]].active,
                  age |-> tracks[ids[Len(ids) + 1 - k]].age ]]

\* _format_results: the tracks that are active or at most 5 frames old
TS_format_results(tracks) ==
    LET shown == {tid \in DOMAIN tracks :
                     tracks[tid].active \/ tracks[tid].age <= 5}
        ids == Ascending(shown)
    IN  [k \in 1..Len(ids) |->
            LET box == tracks[ids[k]].box
            IN  [ id |-> ids[k], x |-> box[1], y |-> box[2],
                  width |-> box[3] - box[1], height |-> box[4] - box[2],
                  confidence |-> box[5], active |-> tracks[ids[k]].active,
                  age |-> tracks[ids[k]].age ]]

\* the call with a slip: ageing leaves the active flags as they were
TrackingService_update_result_flag_kept(t, c, detections) ==
    LET aged == [tid \in DOMAIN t.tracks |->
                    [t.tracks[tid] EXCEPT !.age = @ + 1]]
        kept == [tid \in {i \in DOMAIN aged : aged[i].age <= c.max_age}
                    |-> aged[tid]]
        det_boxes == [i \in 1..Len(detections) |-> TS_det_box(detections[i])]
        g == TS_greedy(kept, det_boxes, c.max_distance)
        cr == TS_create(g.tracks, t.next_id, det_boxes,
                        g.assigned_detections, 1)
    IN  IF Len(detections) = 0
        THEN [ fields |-> [tracks |-> kept, next_id |-> t.next_id],
               assoc |-> <<>>, created |-> {},
               returned |-> TS_format_results(kept) ]
        ELSE [ fields |-> [tracks |-> cr.tracks, next_id |-> cr.next_id],
               assoc |-> <<TS_assigned(g)>>,
               created |-> t.next_id..(cr.next_id - 1),
               returned |-> TS_format_results(cr.tracks) ]

\* TrackingService.update(detections): the whole call
TrackingService_update_result(t, c, detections) ==
    LET aged == [tid \in DOMAIN t.tracks |->
                    [t.tracks[tid] EXCEPT !.age = @ + 1, !.active = FALSE]]
        kept == [tid \in {i \in DOMAIN aged : aged[i].age <= c.max_age}
                    |-> aged[tid]]
        det_boxes == [i \in 1..Len(detections) |-> TS_det_box(detections[i])]
        g == TS_greedy(kept, det_boxes, c.max_distance)
        cr == TS_create(g.tracks, t.next_id, det_boxes,
                        g.assigned_detections, 1)
    IN  IF Len(detections) = 0
        THEN [ fields |-> [tracks |-> kept, next_id |-> t.next_id],
               assoc |-> <<>>, created |-> {},
               returned |-> TS_format_results(kept) ]
        ELSE [ fields |-> [tracks |-> cr.tracks, next_id |-> cr.next_id],
               assoc |-> <<TS_assigned(g)>>,
               created |-> t.next_id..(cr.next_id - 1),
               returned |-> TS_format_results(cr.tracks) ]

-----------------------------------------------------------------------------
(* Configurations *)

\* ByteTracker(frame_rate=30, track_thresh=0.5, track_buffer=30,
\*             match_thresh=0.8, mot20=False)
BTConfig(mot20) ==
    [ track_thresh |-> 50, track_buffer |-> bt_track_buffer,
      match_thresh |-> 80, mot20 |-> mot20 ]

\* OCSort(det_thresh=0.6, max_age=50, min_hits=3, iou_threshold=0.3,
\*        use_byte=False)
OCConfig(min_hits, use_byte) ==
    [ det_thresh |-> 60, max_age |-> oc_max_age, min_hits |-> min_hits,
      iou_threshold |-> 30, use_byte |-> use_byte ]

\* TrackingService(max_distance=150, max_age=30)
TSConfig == [max_distance |-> 150, max_age |-> ts_max_age]

Configs(e) ==
    CASE e = "bytetrack" -> {BTConfig(m) : m \in BOOLEAN}
      [] e = "ocsort" -> {OCConfig(3, FALSE), OCConfig(0, TRUE)}
      [] e = "service" -> {TSConfig}

Engines == {"bytetrack", "ocsort", "service"}

-----------------------------------------------------------------------------
(* The instance and its public calls *)

NoCall == [op |-> "init"]

Init ==
    /\ engine \in Engines
    /\ cfg \in Configs(engine)
    /\ bt = ByteTracker_init
    /\ oc = OCSort_init
    /\ ts = TrackingService_init
    /\ calls = 0
    /\ issued = {}
    /\ gone = <<>>
    /\ last = NoCall
    /\ twin = <<>>

\* tracker.update(detections, scores) on a ByteTracker, for one of the
\* given frames and at most so many calls
BT_UpdateWith(frames, most) ==
    /\ engine = "bytetrack"
    /\ calls < most
    /\ calls' = calls + 1
    /\ \E detections \in frames :
          LET r == ByteTracker_update_result(bt, cfg, detections)
          IN  /\ r.fields.track_id_count <= MaxIds
              /\ bt' = r.fields
              /\ issued' = issued \cup r.created
              /\ last' = [ op |-> "update", input |-> detections,
                           raised |-> r.raised,
                           dets |-> r.dets, assoc |-> r.assoc,
                           marked |-> r.marked, created |-> r.created,
                           returned |-> r.returned ]
    /\ UNCHANGED <<engine, cfg, oc, ts, gone, twin>>

BT_Update == BT_UpdateWith(BTFrames, MaxCalls)

\* tracker.reset() on a ByteTracker
BT_Reset ==
    /\ engine = "bytetrack"
    /\ bt' = ByteTracker_init
    /\ last' = [op |-> "reset"]
    /\ UNCHANGED <<engine, cfg, oc, ts, calls, issued, gone, twin>>

\* the removed tracks to remember after an OCSort update with outcome r:
\* those of before and of this frame, less the ones re-identified in this
\* frame and the ones last updated more than max_age frames ago
StillGone(before, r, max_age) ==
    LET all == r.removed @@ before
        back == {r.reid[k].match : k \in 1..Len(r.reid)}
    IN  [id \in {i \in DOMAIN all :
                    /\ i \notin back
                    /\ r.fields.frame_id - all[i].frame_id <= max_age}
            |-> all[id]]

\* tracker.update(detections, scores, frame) on an OCSort, for one of the
\* given frames and at most so many calls
OC_UpdateWith(frames, most) ==
    /\ engine = "ocsort"
    /\ calls < most
    /\ calls' = calls + 1
    /\ \E detections \in frames :
          \E r \in OCSort_update_results(oc, cfg, detections) :
              /\ r.fields.track_id_count <= MaxIds
              /\ oc' = r.fields
              /\ issued' = issued \cup r.created
              /\ gone' = StillGone(gone, r, cfg.max_age)
              /\ last' = [ op |-> "update", input |-> detections,
                           raised |-> "none",
                           dets |-> r.dets, predicted |-> r.predicted,
                           removed |-> r.removed, unmatched |-> r.unmatched,
                           pooled |-> r.pooled,
                           assoc |-> r.assoc, reid |-> r.reid, created |-> r.created,
                           returned |-> r.returned ]
    /\ UNCHANGED <<engine, cfg, bt, ts, twin>>

OC_Update == OC_UpdateWith(OCFrames, MaxCalls)

\* tracker.reset() on an OCSort
OC_Reset ==
    /\ engine = "ocsort"
    /\ oc' = OCSort_init
    /\ gone' = <<>>
    /\ last' = [op |-> "reset"]
    /\ UNCHANGED <<engine, cfg, bt, ts, calls, issued, twin>>

\* tracker.update(detections) on a TrackingService, for one of the given
\* frames and at most so many calls
TS_UpdateWith(frames, most) ==
    /\ engine = "service"
    /\ calls < most
    /\ calls' = calls + 1
    /\ \E detections \in frames :
          LET r == TrackingService_update_result(ts, cfg, detections)
          IN  /\ ts' = r.fields
              /\ issued' = issued \cup r.created
              /\ last' = [ op |-> "update", input |-> detections,
                           raised |-> "none",
                           assoc |-> r.assoc, created |-> r.created,
                           returned |-> r.returned ]
    /\ UNCHANGED <<engine, cfg, bt, oc, gone, twin>>

TS_Update == TS_UpdateWith(TSFrames, MaxCalls)

Next ==
    \/ TS_Update
    \/ BT_Update
    \/ BT_Reset
    \/ OC_Update
    \/ OC_Reset

Spec == Init /\ [][Next]_vars

-----------------------------------------------------------------------------
(* The association routines called on their own *)

\* boxes of tracks and detections: equal, overlapping above 0.8 (0 and 1),
\* above 0.3 (0 and 5), below 0.3 (1 and 5 against 20: not at all)
AssocBoxes == {BoxAt(0), BoxAt(1), BoxAt(5), BoxAt(20)}

\* lists of 0..n boxes
BoxLists(n) == UNION {[1..k -> AssocBoxes] : k \in 0..n}

\* thresh / iou_threshold in percent; max_distance for TrackingService
AssocThresholds(e) ==
    IF e = "service" THEN {0, 1, 4, 150} ELSE {0, 30, 50, 80}

\* the arguments of one call, drawn from the sets above
AssocInit ==
    /\ engine \in Engines
    /\ cfg \in Configs(engine)
    /\ bt = ByteTracker_init
    /\ oc = OCSort_init
    /\ ts = TrackingService_init
    /\ calls = 0
    /\ issued = {}
    /\ gone = <<>>
    /\ twin = <<>>
    /\ \E tracks \in BoxLists(MaxAssoc), detections \in BoxLists(MaxAssoc) :
          \E thresh \in AssocThresholds(engine) :
             last = [ op |-> "associate", tracks |-> tracks,
                      detections |-> detections, thresh |-> thresh ]

\* self._associate(tracks, detections, thresh) of a ByteTracker
BT_Associate ==
    /\ engine = "bytetrack"
    /\ last.op = "associate"
    /\ last' = [ op |-> "associated", tracks |-> last.tracks,
                 detections |-> last.detections, thresh |-> last.thresh,
                 assoc |-> <<ByteTracker_associate(
                               [i \in 1..Len(last.tracks) |->
                                   STrack(to_tlwh(last.tracks[i]), 90)],
                               [i \in 1..Len(last.detections) |->
                                   STrack(to_tlwh(last.detections[i]), 90)],
                               last.thresh)>> ]
    /\ UNCHANGED <<engine, cfg, bt, oc, ts, calls, issued, gone, twin>>

\* self._associate(tracks, detections, iou_threshold) of an OCSort
OC_Associate ==
    /\ engine = "ocsort"
    /\ last.op = "associate"
    /\ \E r \in OCSort_associate(
                  [i \in 1..Len(last.tracks) |->
                      OCTrack(to_tlwh(last.tracks[i]), 90, "none")],
                  [i \in 1..Len(last.detections) |->
                      OCTrack(to_tlwh(last.detections[i]), 90, "none")],
                  last.thresh) :
          last' = [ op |-> "associated", tracks |-> last.tracks,
                    detections |-> last.detections, thresh |-> last.thresh,
                    assoc |-> <<r>> ]
    /\ UNCHANGED <<engine, cfg, bt, oc, ts, calls, issued, gone, twin>>

\* the greedy loop of TrackingService.update on given tracks and det_boxes
TS_Associate ==
    /\ engine = "service"
    /\ last.op = "associate"
    /\ last' = [ op |-> "associated", tracks |-> last.tracks,
                 detections |-> last.detections, thresh |-> last.thresh,
                 assoc |-> <<TS_assigned(TS_greedy(
                               [i \in 1..Len(last.tracks) |->
                                   [box |-> last.tracks[i] \o <<90>>,
                                    age |-> 1, active |-> FALSE]],
                               [i \in 1..Len(last.detections) |->
                                   last.detections[i] \o <<90>>],
                               last.thresh))>> ]
    /\ UNCHANGED <<engine, cfg, bt, oc, ts, calls, issued, gone, twin>>

AssocNext ==
    \/ BT_Associate
    \/ OC_Associate
    \/ TS_Associate

AssocSpec == AssocInit /\ [][AssocNext]_vars

-----------------------------------------------------------------------------
(* The association routines on boxes that overlap crosswise *)

\* two tracks (3 and 7) between two detections (4 and 0), as offsets: the
\* pair 3/4 overlaps by 9/11, the pairs 3/0 and 7/4 by 7/13 each and the
\* pair 7/0 by 3/17, so the two middling pairs together outweigh the best
\* pair with the worst
CrossBoxes == {BoxAt(0), BoxAt(3), BoxAt(4), BoxAt(7)}

\* lists of 0..n of these boxes
CrossLists(n) == UNION {[1..k -> CrossBoxes] : k \in 0..n}

\* the arguments of one call, drawn from the sets above
CrossInit ==
    /\ engine \in Engines
    /\ cfg \in Configs(engine)
    /\ bt = ByteTracker_init
    /\ oc = OCSort_init
    /\ ts = TrackingService_init
    /\ calls = 0
    /\ issued = {}
    /\ gone = <<>>
    /\ twin = <<>>
    /\ \E tracks \in CrossLists(MaxAssoc), detections \in CrossLists(MaxAssoc) :
          \E thresh \in AssocThresholds(engine) :
             last = [ op |-> "associate", tracks |-> tracks,
                      detections |-> detections, thresh |-> thresh ]

CrossNext ==
    \/ BT_Associate
    \/ OC_Associate
    \/ TS_Associate

CrossSpec == CrossInit /\ [][CrossNext]_vars

-----------------------------------------------------------------------------
(* Two instances of one engine, given the same frames *)

\* the frames both instances are given
TwinFrames(e) ==
    IF e = "bytetrack" THEN BTFrames
    ELSE {<<>>, <<Seen(0, "a")>>, <<Seen(5, "a")>>}

TwinInit ==
    /\ engine \in {"bytetrack", "ocsort"}
    /\ cfg \in Configs(engine)
    /\ bt = ByteTracker_init
    /\ oc = OCSort_init
    /\ ts = TrackingService_init
    /\ calls = 0
    /\ issued = {}
    /\ gone = <<>>
    /\ last = NoCall
    /\ twin = IF engine = "bytetrack" THEN ByteTracker_init ELSE OCSort_init

\* Two outcomes r1, r2 of OCSort.update on the same state o and frame, as
\* two runs of the code can produce them.  The only input of update() that
\* the frame does not fix is the wall clock of _apply_oos, and that decides
\* nothing but x and y velocities: the outcomes agree on everything else,
\* and on the velocity of every track whose smoothing has one outcome.
SameButTiming(o, r1, r2) ==
    LET still(h) == [id \in DOMAIN h |-> [h[id] EXCEPT !.kf_v = ZeroVec]]
    IN  /\ r1.assoc = r2.assoc
        /\ r1.reid = r2.reid
        /\ [r1.fields EXCEPT !.heap = still(@)]
              = [r2.fields EXCEPT !.heap = still(@)]
        /\ \A id \in DOMAIN r1.fields.heap :
              (\/ id \notin Range(o.tracks)
               \/ Cardinality(OOSVelocities(o.heap[id])) = 1)
              => r1.fields.heap[id].kf_v = r2.fields.heap[id].kf_v

\* the same update(detections, scores) on both ByteTrackers
BT_TwinUpdate ==
    /\ engine = "bytetrack"
    /\ calls < MaxCalls
    /\ calls' = calls + 1
    /\ \E detections \in TwinFrames(engine) :
          LET r1 == ByteTracker_update_result(bt, cfg, detections)
              r2 == ByteTracker_update_result(twin, cfg, detections)
          IN  /\ r1.fields.track_id_count <= MaxIds
              /\ r2.fields.track_id_count <= MaxIds
              /\ bt' = r1.fields
              /\ twin' = r2.fields
              /\ issued' = issued \cup r1.created
              /\ last' = [ op |-> "update", input |-> detections,
                           returned |-> r1.returned,
                           twin_returned |-> r2.returned ]
    /\ UNCHANGED <<engine, cfg, oc, ts, gone>>

\* the same update(detections, scores, frame) on both OCSorts
OC_TwinUpdate ==
    /\ engine = "ocsort"
    /\ calls < MaxCalls
    /\ calls' = calls + 1
    /\ \E detections \in TwinFrames(engine) :
          \E r1 \in OCSort_update_results(oc, cfg, detections) :
             \E r2 \in OCSort_update_results(twin, cfg, detections) :
                /\ r1.fields.track_id_count <= MaxIds
                /\ r2.fields.track_id_count <= MaxIds
                /\ oc = twin => SameButTiming(oc, r1, r2)
                /\ oc' = r1.fields
                /\ twin' = r2.fields
                /\ issued' = issued \cup r1.created
                /\ last' = [ op |-> "update", input |-> detections,
                             returned |-> r1.returned,
                             twin_returned |-> r2.returned ]
    /\ UNCHANGED <<engine, cfg, bt, ts, gone>>

TwinNext ==
    \/ BT_TwinUpdate
    \/ OC_TwinUpdate

TwinSpec == TwinInit /\ [][TwinNext]_vars

-----------------------------------------------------------------------------
(* The engines on boxes of either form, boxes of no extent and thresholds  *)
(* at the end of their range                                               *)

MaxEdgeCalls == 2

\* a box of no extent: read as corners it has width 0 and height 0, read
\* as [x, y, w, h] it has height 0
Degenerate == <<40, 0, 40, 0>>

\* a box in corner form; a box in [x, y, w, h] form with w > x and h > y;
\* a box in [x, y, w, h] form with w <= x (it overlaps neither of the
\* first two); the box of no extent
EdgeBoxes == {BoxAt(0), <<5, 0, 10, 1>>, <<20, 3, 10, 1>>, Degenerate}

Given(box) == Detection(box, 90, "a")

EdgeFrames(e) ==
    IF e = "service"
    THEN { <<>>, <<Person(0)>>, <<Person(300)>>,
           <<[Person(40) EXCEPT !.width = 0, !.height = 0]>>,
           <<Person(0), [Person(40) EXCEPT !.width = 0, !.height = 0]>> }
    ELSE {<<>>} \cup {<<Given(b)>> : b \in EdgeBoxes}
         \cup { <<Given(BoxAt(0)), Given(Degenerate)>>,
                <<Given(<<5, 0, 10, 1>>), Given(<<20, 3, 10, 1>>)>> }

\* the defaults, and a stage-1 threshold of 0
EdgeConfigs(e) ==
    CASE e = "bytetrack" ->
           {BTConfig(FALSE), [BTConfig(TRUE) EXCEPT !.match_thresh = 0]}
      [] e = "ocsort" ->
           {OCConfig(0, TRUE), [OCConfig(3, FALSE) EXCEPT !.iou_threshold = 0],
            \* a max_age below the occlusion budget of the tracks
            [OCConfig(0, FALSE) EXCEPT !.max_age = max_occlusion_frames - 1]}
      [] e = "service" -> {TSConfig}

EdgeInit ==
    /\ engine \in Engines
    /\ cfg \in EdgeConfigs(engine)
    /\ bt = ByteTracker_init
    /\ oc = OCSort_init
    /\ ts = TrackingService_init
    /\ calls = 0
    /\ issued = {}
    /\ gone = <<>>
    /\ last = NoCall
    /\ twin = <<>>

BT_EdgeUpdate == BT_UpdateWith(EdgeFrames(engine), MaxEdgeCalls)
OC_EdgeUpdate == OC_UpdateWith(EdgeFrames(engine), MaxEdgeCalls)
TS_EdgeUpdate == TS_UpdateWith(EdgeFrames(engine), MaxEdgeCalls)

EdgeNext ==
    \/ BT_EdgeUpdate
    \/ OC_EdgeUpdate
    \/ TS_EdgeUpdate

EdgeSpec == EdgeInit /\ [][EdgeNext]_vars

-----------------------------------------------------------------------------
(* One OCTrack and its appearance descriptors: update_appearance() called
   any number of times with regions of three looks, no region, or an empty
   region.  The track is oc.tracks[1]; last records the call. *)

MaxRingCalls == 7

RingCrops == {"a", "b", "c"} \cup NoRegion

RingInit ==
    /\ engine = "ocsort"
    /\ cfg = OCConfig(0, TRUE)
    /\ bt = ByteTracker_init
    /\ \E crop \in RingCrops :
          oc = [OCSort_init EXCEPT
                  !.tracks = <<OCTrack(BoxAt(0), 90, crop)>>]
    /\ ts = TrackingService_init
    /\ calls = 0
    /\ issued = {}
    /\ gone = <<>>
    /\ last = NoCall
    /\ twin = <<>>

\* track.update_appearance(image_crop)
OCTrack_UpdateAppearance ==
    /\ calls < MaxRingCalls
    /\ \E crop \in RingCrops :
          LET before == oc.tracks[1].appearance_features
              after  == update_appearance(before, crop)
          IN  /\ oc' = [oc EXCEPT
                          !.tracks[1].appearance_features = after]
              /\ last' = [op |-> "update_appearance", input |-> crop,
                          before |-> before, after |-> after]
    /\ calls' = calls + 1
    /\ UNCHANGED <<engine, cfg, bt, ts, issued, gone, twin>>

RingNext == OCTrack_UpdateAppearance

RingSpec == RingInit /\ [][RingNext]_vars

-----------------------------------------------------------------------------
(* The caller keeps the list update() returned and changes it: it removes an
   entry or appends an object of its own.  ByteTracker returns
   self.tracked_stracks, the list object the engine goes on using until the
   next update() rebinds the name (line 204), so a change of the caller's
   list is a change of that pool.  OCSort returns the list a comprehension
   built and TrackingService the list _format_results built: no engine field
   refers to either.  last.returned is the caller's list. *)

MaxCallerCalls == 3

\* an object of the caller's, not a track
Stranger == [track_id |-> 0, state |-> "stranger"]

\* how the caller's object shows in last.returned: ByteTracker and OCSort
\* results are listed by track id, TrackingService results as dicts
StrangerShown(e) == IF e = "service" THEN [id |-> 0] ELSE 0

\* del l[k]
list_del(l, k) == SubSeq(l, 1, k - 1) \o SubSeq(l, k + 1, Len(l))

\* the first index of l holding x, Len(l) + 1 if none
list_index(l, x) ==
    IF \E k \in 1..Len(l) : l[k] = x
    THEN CHOOSE k \in 1..Len(l) : l[k] = x /\ \A j \in 1..(k - 1) : l[j] # x
    ELSE Len(l) + 1

CallerInit ==
    /\ engine \in Engines
    /\ cfg = CASE engine = "bytetrack" -> BTConfig(FALSE)
              [] engine = "ocsort" -> OCConfig(0, TRUE)
              [] OTHER -> TSConfig
    /\ bt = ByteTracker_init
    /\ oc = OCSort_init
    /\ ts = TrackingService_init
    /\ calls = 0
    /\ issued = {}
    /\ gone = <<>>
    /\ last = NoCall
    /\ twin = <<>>

\* the caller holds a list: the last update() returned one
CallerHolds == last.op \in {"update", "mutate"} /\ last.raised = "none"

\* tracker.update(detections, scores) on a ByteTracker whose pool the caller
\* may have changed.  "for track in self.tracked_stracks +
\* self.lost_stracks: track.predict()" raises AttributeError at the caller's
\* object, after line 125 and the predict() of the tracks before it.
BT_CallerUpdate ==
    LET at == list_index(bt.tracked_stracks, Stranger)
    IN  IF at <= Len(bt.tracked_stracks)
        THEN /\ engine = "bytetrack"
             /\ calls < MaxCallerCalls
             /\ calls' = calls + 1
             /\ \E detections \in BTFrames :
                   /\ bt' = [bt EXCEPT
                               !.frame_id = @ + 1,
                               !.tracked_stracks =
                                   MapPredict(SubSeq(@, 1, at - 1))
                                   \o SubSeq(@, at, Len(@))]
                   /\ last' = [ op |-> "update", input |-> detections,
                                raised |-> "AttributeError",
                                dets |-> <<>>, assoc |-> <<>>,
                                marked |-> <<>>, created |-> {},
                                returned |-> <<>> ]
             /\ UNCHANGED <<engine, cfg, oc, ts, issued, gone, twin>>
        ELSE BT_UpdateWith(BTFrames, MaxCallerCalls)

OC_CallerUpdate == OC_UpdateWith(OCFrames, MaxCallerCalls)
TS_CallerUpdate == TS_UpdateWith(TSFrames, MaxCallerCalls)

\* del returned[k]
Caller_Remove ==
    /\ CallerHolds
    /\ \E k \in 1..Len(last.returned) :
          /\ last' = [last EXCEPT !.op = "mutate",
                                  !.returned = list_del(@, k)]
          /\ bt' = IF engine = "bytetrack"
                   THEN [bt EXCEPT !.tracked_stracks = list_del(@, k)]
                   ELSE bt
    /\ UNCHANGED <<engine, cfg, oc, ts, calls, issued, gone, twin>>

\* returned.append(obj), once per list
Caller_Append ==
    /\ CallerHolds
    /\ \A k \in 1..Len(last.returned) :
          last.returned[k] # StrangerShown(engine)
    /\ last' = [last EXCEPT !.op = "mutate",
                            !.returned = Append(@, StrangerShown(engine))]
    /\ bt' = IF engine = "bytetrack"
             THEN [bt EXCEPT !.tracked_stracks = Append(@, Stranger)]
             ELSE bt
    /\ UNCHANGED <<engine, cfg, oc, ts, calls, issued, gone, twin>>

CallerNext ==
    \/ BT_CallerUpdate
    \/ OC_CallerUpdate
    \/ TS_CallerUpdate
    \/ Caller_Remove
    \/ Caller_Append

CallerSpec == CallerInit /\ [][CallerNext]_vars

-----------------------------------------------------------------------------
(* An OCSort whose max_age is just above the occlusion budget of its tracks,
   so that a removed track reaches the age horizon of the disappeared pool
   within a few frames. *)

MaxHorizonCalls == 4

HorizonFrames ==
    { <<>>, <<Seen(0, "a")>>, <<Seen(5, "a")>>, <<Seen(300, "a")>> }

HorizonInit ==
    /\ engine = "ocsort"
    /\ cfg \in {[OCConfig(m, FALSE) EXCEPT !.max_age = max_occlusion_frames + 1]
                 : m \in {0, 1}}
    /\ bt = ByteTracker_init
    /\ oc = OCSort_init
    /\ ts = TrackingService_init
    /\ calls = 0
    /\ issued = {}
    /\ gone = <<>>
    /\ last = NoCall
    /\ twin = <<>>

OC_HorizonUpdate == OC_UpdateWith(HorizonFrames, MaxHorizonCalls)

HorizonNext == OC_HorizonUpdate

HorizonSpec == HorizonInit /\ [][HorizonNext]_vars

-----------------------------------------------------------------------------
(* The IoU cost called on its own *)

\* the corners of the boxes lie on the grid 0..MaxCoord, in any order, so a
\* box can be empty or inside out
MaxCoord == 2

IouBoxes == [1..4 -> 0..MaxCoord]

\* the two arguments of one call
IouInit ==
    /\ engine \in {"bytetrack", "ocsort"}
    /\ cfg \in Configs(engine)
    /\ bt = ByteTracker_init
    /\ oc = OCSort_init
    /\ ts = TrackingService_init
    /\ calls = 0
    /\ issued = {}
    /\ gone = <<>>
    /\ twin = <<>>
    /\ \E box1 \in IouBoxes, box2 \in IouBoxes :
          last = [op |-> "iou", box1 |-> box1, box2 |-> box2]

\* self._iou(box1, box2) and, for comparison, self._iou(box2, box1)
IouCall ==
    /\ last.op = "iou"
    /\ last' = [ op |-> "iou_done", box1 |-> last.box1, box2 |-> last.box2,
                 value |-> iou(last.box1, last.box2),
                 swapped |-> iou(last.box2, last.box1) ]
    /\ UNCHANGED <<engine, cfg, bt, oc, ts, calls, issued, gone, twin>>

\* ByteTracker._iou
BT_Iou == engine = "bytetrack" /\ IouCall

\* OCSort._iou
OC_Iou == engine = "ocsort" /\ IouCall

IouNext ==
    \/ BT_Iou
    \/ OC_Iou

IouSpec == IouInit /\ [][IouNext]_vars

-----------------------------------------------------------------------------
(* Track.update called on its own *)

\* self.history = deque(maxlen=30)
HistoryKept == 30

\* self.history.append(self.center), the centre kept as twice its value
history_append(h, tlwh) ==
    LET o == Append(h, center2(tlwh))
    IN  IF Len(o) > HistoryKept THEN Tail(o) ELSE o

\* track objects in each state: fresh from the constructor, activated,
\* predicted once and twice, marked lost and marked removed
TrackObjects(e) ==
    LET boxes == {to_tlwh(BoxAt(0)), to_tlwh(BoxAt(5))}
    IN  IF e = "bytetrack"
        THEN UNION {LET n == STrack(b, 90)
                        a == STrack_activate(n, 1, 1)
                    IN  {n, a, STrack_predict(a),
                         STrack_predict(STrack_predict(a)),
                         STrack_mark_lost(a), STrack_mark_removed(a)}
                      : b \in boxes}
        ELSE UNION {LET n == OCTrack(b, 90, "a")
                        a == OCTrack_activate(n, 1, 1)
                    IN  {n, a, OCTrack_predict(a, ZeroVec),
                         OCTrack_predict(OCTrack_predict(a, ZeroVec), ZeroVec),
                         OCTrack_mark_lost(a), OCTrack_mark_removed(a)}
                      : b \in boxes}

\* the detections handed to update(), as track objects fresh from the
\* constructor
TrackDetections(e) ==
    {IF e = "bytetrack" THEN STrack(to_tlwh(BoxAt(x)), sc)
     ELSE OCTrack(to_tlwh(BoxAt(x)), sc, "a") : x \in {0, 5, 20}, sc \in {90, 70}}

\* histories: empty, one entry, full
TrackHistories ==
    {<<>>, <<center2(to_tlwh(BoxAt(0)))>>,
     [i \in 1..HistoryKept |-> center2(to_tlwh(BoxAt(i)))]}

\* the receiver and the arguments of one call
TrackInit ==
    /\ engine \in {"bytetrack", "ocsort"}
    /\ cfg \in Configs(engine)
    /\ bt = ByteTracker_init
    /\ oc = OCSort_init
    /\ ts = TrackingService_init
    /\ calls = 0
    /\ issued = {}
    /\ gone = <<>>
    /\ twin = <<>>
    /\ \E t \in TrackObjects(engine), d \in TrackDetections(engine) :
          \E h \in TrackHistories, f \in {2, 3} :
             last = [ op |-> "track", track |-> t, history |-> h,
                      det |-> d, frame_id |-> f ]

\* STrack.update(new_track, frame_id)
BT_TrackUpdate ==
    /\ engine = "bytetrack"
    /\ last.op = "track"
    /\ last' = [ op |-> "track_updated", before |-> last.track,
                 det |-> last.det, frame_id |-> last.frame_id,
                 history_before |-> last.history,
                 track |-> STrack_update(last.track, last.det, last.frame_id),
                 history |-> history_append(last.history, last.det.tlwh) ]
    /\ UNCHANGED <<engine, cfg, bt, oc, ts, calls, issued, gone, twin>>

\* OCTrack.update(new_track, frame_id)
OC_TrackUpdate ==
    /\ engine = "ocsort"
    /\ last.op = "track"
    /\ \E post \in KFPosteriors(last.track, last.det.tlwh) :
          last' = [ op |-> "track_updated", before |-> last.track,
                    det |-> last.det, frame_id |-> last.frame_id,
                    history_before |-> last.history,
                    track |-> OCTrack_update(last.track, last.det,
                                             last.frame_id, post),
                    history |-> history_append(last.history, last.det.tlwh) ]
    /\ UNCHANGED <<engine, cfg, bt, oc, ts, calls, issued, gone, twin>>

TrackNext ==
    \/ BT_TrackUpdate
    \/ OC_TrackUpdate

TrackSpec == TrackInit /\ [][TrackNext]_vars

-----------------------------------------------------------------------------
(* An OCSort that is never given an image *)

MaxBlindCalls == 5

\* a detection of update(detections, scores) with frame=None
Blind(x) == Detection(BoxAt(x), 90, "none")

BlindFrames ==
    { <<>>, <<Blind(0)>>, <<Blind(5)>>, <<Blind(0), Blind(5)>> }

BlindInit ==
    /\ engine = "ocsort"
    /\ cfg \in Configs("ocsort")
    /\ bt = ByteTracker_init
    /\ oc = OCSort_init
    /\ ts = TrackingService_init
    /\ calls = 0
    /\ issued = {}
    /\ gone = <<>>
    /\ last = NoCall
    /\ twin = <<>>

\* tracker.update(detections, scores) on an OCSort
OC_BlindUpdate == OC_UpdateWith(BlindFrames, MaxBlindCalls)

BlindNext == OC_BlindUpdate

BlindSpec == BlindInit /\ [][BlindNext]_vars

-----------------------------------------------------------------------------
(* A TrackingService over the frames in which a lost track is still kept *)

MaxServiceCalls == 9

\* line 110: a track is listed while t['age'] <= 5
ReportedAge == 5

\* a max_age below the age up to which a track is listed, and one above it
ServiceConfigs ==
    {TSConfig, [TSConfig EXCEPT !.max_age = ReportedAge + 2]}

ServiceFrames == { <<>>, <<Person(0)>>, <<Person(300)>> }

ServiceInit ==
    /\ engine = "service"
    /\ cfg \in ServiceConfigs
    /\ bt = ByteTracker_init
    /\ oc = OCSort_init
    /\ ts = TrackingService_init
    /\ calls = 0
    /\ issued = {}
    /\ gone = <<>>
    /\ last = NoCall
    /\ twin = <<>>

\* tracker.update(detections) on the TrackingService
TS_ServiceUpdate == TS_UpdateWith(ServiceFrames, MaxServiceCalls)

ServiceNext == TS_ServiceUpdate

ServiceSpec == ServiceInit /\ [][ServiceNext]_vars

-----------------------------------------------------------------------------
(* Properties *)

\* the last step was an update() call of the engine e
Updated(e) == engine = e /\ calls' # calls

\* fraction strictly above a threshold given in percent
FracGTPct(a, pct) == a[1] * 100 > pct * a[2]

\* C1: over update() and reset() of one ByteTracker / OCSort instance, every
\* newly created track gets an identifier strictly greater than every
\* identifier the instance issued before (so none is issued twice).
C1_IdsNeverReused ==
    [][(Updated("bytetrack") \/ Updated("ocsort"))
         => \A i \in last'.created : \A j \in issued : i > j]_vars

\* The active pool before an update() call, entry by entry: the number of
\* entries, and the identifier and state of entry k.
PoolSize ==
    IF engine = "bytetrack" THEN Len(bt.tracked_stracks) ELSE Len(oc.tracks)
PoolId(k) ==
    IF engine = "bytetrack" THEN bt.tracked_stracks[k].track_id ELSE oc.tracks[k]
PoolState(k) ==
    IF engine = "bytetrack" THEN bt.tracked_stracks[k].state
    ELSE oc.heap[oc.tracks[k]].state
\* the box entry k had when the previous frame was done
PoolBox(k) ==
    IF engine = "bytetrack" THEN tlbr(bt.tracked_stracks[k].tlwh)
    ELSE tlbr(oc.heap[oc.tracks[k]].tlwh)
\* the box entry k enters stage 1 with: ByteTracker's prediction leaves the
\* box alone, OCSort's replaces it by the Kalman prediction
PoolBoxPredicted(k) ==
    IF engine = "bytetrack" THEN tlbr(bt.tracked_stracks[k].tlwh)
    ELSE tlbr(last'.predicted[oc.tracks[k]].tlwh)

\* the detections of the frame that reach stage 1, as tlbr boxes
Stage1Boxes ==
    LET least == IF engine = "bytetrack" THEN cfg.track_thresh ELSE cfg.det_thresh
    IN  {tlbr(to_tlwh(d.box)) : d \in {e \in Range(last'.input) : e.score >= least}}

Stage1Threshold ==
    IF engine = "bytetrack" THEN cfg.match_thresh ELSE cfg.iou_threshold

\* after the call the track id is Tracked in the active pool, last updated
\* in this frame, and the call did not mark it Lost
StillTracked(id) ==
    IF engine = "bytetrack"
    THEN /\ \E k \in 1..Len(bt'.tracked_stracks) :
               /\ bt'.tracked_stracks[k].track_id = id
               /\ bt'.tracked_stracks[k].state = "tracked"
               /\ bt'.tracked_stracks[k].frame_id = bt'.frame_id
         /\ \A k \in 1..Len(last'.marked) :
               last'.marked[k].track_id = id => last'.marked[k].state # "lost"
    ELSE /\ id \in Range(oc'.tracks)
         /\ oc'.heap[id].state = "tracked"
         /\ oc'.heap[id].frame_id = oc'.frame_id

C3_LostKeptAndReacquired ==
    [][Updated("bytetrack")
         => /\ \A k \in 1..Len(last'.assoc[1].unmatched_trks) :
                 LET t == bt.tracked_stracks[last'.assoc[1].unmatched_trks[k]]
                 IN  \E j \in 1..Len(bt'.lost_stracks) :
                        /\ bt'.lost_stracks[j].track_id = t.track_id
                        /\ bt'.lost_stracks[j].state = "lost"
            /\ last.op = "update"
                 => \A k \in 1..Len(last.marked) : \A d \in Stage1Boxes :
                       (/\ last.marked[k].state = "lost"
                        /\ FracGEPct(iou(tlbr(last.marked[k].tlwh), d), 50))
                       => \E j \in 1..Len(bt'.tracked_stracks) :
                             bt'.tracked_stracks[j].track_id
                                 = last.marked[k].track_id]_vars

\* C4: in the result of one association call (ByteTracker._associate,
\* OCSort._associate, the greedy loop of TrackingService.update) no track
\* index and no detection index appears in two matched pairs.
C4_NoDoubleAssignment ==
    last.op = "associated"
      => \A k \in 1..Len(last.assoc) :
            "matched" \in DOMAIN last.assoc[k]
              => LET matched == last.assoc[k].matched
                 IN  \A i, j \in 1..Len(matched) :
                        i # j => /\ matched[i][1] # matched[j][1]
                                 /\ matched[i][2] # matched[j][2]

\* a call that matched two pairs
C4_Witness ==
    /\ last.op = "associated"
    /\ "matched" \in DOMAIN last.assoc[1]
    /\ Len(last.assoc[1].matched) = 2

\* the detection passes the gate of the track and scores above the
\* acceptance threshold 0.6 against it
Acceptable(det, track) ==
    within_gate(det, track) /\ combined_sim(det, track) > 1200

\* C5: a track that OCSort removed after at least min_hits updates gets its
\* identifier back when, within max_age frames of its last update, a
\* detection that no active track took is acceptable for it (read for one
\* such track and one such detection at a time): the detection is reported
\* under the track's identifier.
C5_ReidRoundTrip ==
    [][Updated("ocsort")
         => \A id \in DOMAIN gone : \A k \in 1..Len(last'.reid) :
               LET det(j) == last'.dets[last'.reid[j].det]
               IN  (/\ oc'.frame_id - gone[id].frame_id <= cfg.max_age
                    /\ Acceptable(det(k), gone[id])
                    /\ \A other \in DOMAIN gone \ {id} :
                          ~Acceptable(det(k), gone[other])
                    /\ \A j \in 1..Len(last'.reid) :
                          j # k => ~Acceptable(det(j), gone[id]))
                   => /\ last'.reid[k].match = id
                      /\ id \in Range(last'.returned)
                      /\ oc'.heap[id].tlwh = det(k).tlwh]_vars

\* the identifiers of the tracks an OCSort holds, active or disappeared
HeldIds == Range(oc.tracks) \cup Range(oc.disappeared_tracks)

\* C6: in OCSort.update a leftover detection that no disappeared-pool track
\* is acceptable for (every one is beyond the gate, or scores at most the
\* acceptance threshold) is not re-identified: a new track is created from
\* it, under an identifier this call allocates and no held track has.
C6_NoTakeover ==
    [][Updated("ocsort")
         => \A k \in 1..Len(last'.reid) :
               LET e == last'.reid[k]
                   det == last'.dets[e.det]
               IN  (\A i \in 1..Len(e.candidates) :
                       ~e.candidates[i].gated \/ e.candidates[i].sim <= 1200)
                   => /\ e.match = 0
                      /\ \E id \in last'.created :
                            /\ id \notin HeldIds
                            /\ id \in Range(oc'.tracks)
                            /\ oc'.heap[id].tlwh = det.tlwh
                            /\ oc'.heap[id].start_frame = oc'.frame_id]_vars

\* a frame in which a detection was held against a non-empty disappeared
\* pool, found no acceptable candidate and became a new track
C6_Witness ==
    /\ engine = "ocsort"
    /\ last.op = "update"
    /\ \E k \in 1..Len(last.reid) :
          /\ Len(last.reid[k].candidates) >= 1
          /\ last.reid[k].match = 0
    /\ last.created # {}

\* C7: an OCSort track that stage 1 leaves unmatched is Lost and in the
\* active pool after the frame when its occlusion counter is at most
\* budget - 1 at that point, and is Removed and out of the active pool after
\* the frame when the counter equals the budget; it was not Removed before,
\* and the active pool never keeps a Removed track.
C7_OcclusionBoundary ==
    [][Updated("ocsort")
         => /\ \A k \in 1..Len(last'.unmatched) :
                 LET u == last'.unmatched[k]
                 IN  /\ u.occlusion_count <= u.budget - 1
                        => /\ u.id \in Range(oc'.tracks)
                           /\ oc'.heap[u.id].state = "lost"
                     /\ u.occlusion_count = u.budget
                        => /\ u.id \notin Range(oc'.tracks)
                           /\ oc.heap[u.id].state # "removed"
                           /\ u.id \in DOMAIN oc'.heap
                                 => oc'.heap[u.id].state = "removed"
            /\ \A id \in Range(oc'.tracks) : oc'.heap[id].state # "removed"]_vars

\* the changes of state the lifecycle names
LifecycleSteps ==
    { <<"new", "tracked">>, <<"tracked", "lost">>, <<"lost", "tracked">>,
      <<"tracked", "removed">>, <<"lost", "removed">> }

\* the changes of state the last update() made: for every track the engine
\* held before the call and still knows after it, and for every track the
\* call created (New when constructed), the track with its state before and
\* after
StateChanges ==
    LET all ==
          IF engine = "bytetrack"
          THEN {[id |-> bt.tracked_stracks[k].track_id,
                 from |-> bt.tracked_stracks[k].state,
                 to |-> last'.marked[k].state]
                   : k \in 1..Len(bt.tracked_stracks)}
               \cup {[id |-> bt'.tracked_stracks[k].track_id,
                      from |-> "new",
                      to |-> bt'.tracked_stracks[k].state]
                        : k \in {j \in 1..Len(bt'.tracked_stracks) :
                                   bt'.tracked_stracks[j].track_id
                                       \in last'.created}}
          ELSE {[id |-> id, from |-> oc.heap[id].state,
                 to |-> oc'.heap[id].state]
                   : id \in DOMAIN oc.heap \cap DOMAIN oc'.heap}
               \cup {[id |-> id, from |-> "new", to |-> oc'.heap[id].state]
                       : id \in last'.created \cap DOMAIN oc'.heap}
    IN  {c \in all : c.from # c.to}

\* the tracks a detection re-identified in the last OCSort update
Reidentified ==
    IF engine = "ocsort"
    THEN {last'.reid[k].match : k \in 1..Len(last'.reid)} \ {0}
    ELSE {}

\* C8 as stated: every change of state an update() makes to a track is New
\* to Tracked, Tracked to Lost, Lost to Tracked, Tracked to Removed or Lost
\* to Removed; in particular a Removed track never changes state.
C8_LifecycleMonotone ==
    [][(Updated("bytetrack") \/ Updated("ocsort"))
         => \A c \in StateChanges : <<c.from, c.to>> \in LifecycleSteps]_vars

\* C8 amended: the same, with one more change allowed: Removed to Tracked,
\* for a track of the disappeared pool that a detection of the frame
\* re-identifies.  A Removed track changes state in no other way.
C8_LifecycleWithReid ==
    [][(Updated("bytetrack") \/ Updated("ocsort"))
         => \A c \in StateChanges :
               \/ <<c.from, c.to>> \in LifecycleSteps
               \/ /\ c.from = "removed"
                  /\ c.to = "tracked"
                  /\ c.id \in Range(oc.disappeared_tracks)
                  /\ c.id \in Reidentified]_vars

\* a frame that reinstated a track of the disappeared pool, after frames
\* that created it, lost it and removed it
C8_Witness ==
    /\ engine = "ocsort"
    /\ last.op = "update"
    /\ \E k \in 1..Len(last.reid) :
          /\ last.reid[k].match # 0
          /\ last.reid[k].match \in Range(oc.tracks)
          /\ oc.heap[last.reid[k].match].state = "tracked"
          /\ last.reid[k].match \notin DOMAIN last.removed

\* the first call on a new OCSort with the constructor's defaults, given one
\* detection of score 0.9
FirstFrame ==
    /\ Updated("ocsort")
    /\ calls = 0
    /\ cfg = OCConfig(3, FALSE)
    /\ Len(last'.input) = 1
    /\ last'.input[1].score = 90

\* C9 as stated: that call returns exactly one track, with id 1.
C9_FirstFrameConfirmed ==
    [][FirstFrame => last'.returned = <<1>>]_vars

\* C9 amended: that call creates exactly one track, with id 1, Tracked in
\* the active pool with no observation counted, and returns nothing, the
\* count being below min_hits = 3.
C9_FirstFrameUnconfirmed ==
    [][FirstFrame
         => /\ last'.created = {1}
            /\ oc'.tracks = <<1>>
            /\ oc'.heap[1].state = "tracked"
            /\ oc'.heap[1].observation_count = 0
            /\ oc'.heap[1].observation_count < cfg.min_hits
            /\ last'.returned = <<>>]_vars

\* the state after that first call
C9_Witness ==
    /\ engine = "ocsort"
    /\ cfg = OCConfig(3, FALSE)
    /\ calls = 1
    /\ last.op = "update"
    /\ Len(last.input) = 1
    /\ last.input[1].score = 90
    /\ oc.tracks = <<1>>
    /\ last.returned = <<>>

LowFloor == 10

\* the tracks an engine holds after the update() just made that were
\* created or updated in that frame
Touched ==
    IF engine = "bytetrack"
    THEN {t \in Range(bt'.tracked_stracks) \cup Range(bt'.lost_stracks) :
            t.frame_id = bt'.frame_id}
    ELSE {oc'.heap[id] : id \in {i \in DOMAIN oc'.heap :
                                   oc'.heap[i].frame_id = oc'.frame_id}}

\* C11: a detection with a score below the activation threshold and below
\* the floor 0.1 does not reach association, and every track created or
\* updated in the frame has the box and score of a detection at or above
\* the activation threshold: the weak detection creates and updates nothing.
C11_WeakDetectionIgnored ==
    [][(Updated("bytetrack") \/ Updated("ocsort"))
         => LET least == IF engine = "bytetrack" THEN cfg.track_thresh
                         ELSE cfg.det_thresh
                weak == {d \in Range(last'.input) :
                           d.score < least /\ d.score < LowFloor}
                strong == {d \in Range(last'.input) : d.score >= least}
            IN  /\ \A d \in weak : \A k \in 1..Len(last'.dets) :
                      last'.dets[k].score # d.score
                /\ \A t \in Touched :
                      \E d \in strong : /\ t.tlwh = to_tlwh(d.box)
                                        /\ t.score = d.score
                /\ strong = {} => last'.created = {}]_vars

\* a frame with a detection below the floor, given to an OCSort that holds
\* a track where that detection lies
C11_Witness ==
    /\ engine = "ocsort"
    /\ last.op = "update"
    /\ \E d \in Range(last.input) : d.score < LowFloor
    /\ \E id \in Range(oc.tracks) :
          /\ oc.heap[id].start_frame < oc.frame_id
          /\ oc.heap[id].frame_id < oc.frame_id

\* what an instance shows of its tracks: the identifiers in each pool, in
\* order, the identifier counter, and the state of every track it holds
IdView(e, f) ==
    IF e = "bytetrack"
    THEN [ count |-> f.track_id_count,
           tracked |-> [i \in 1..Len(f.tracked_stracks) |->
                          <<f.tracked_stracks[i].track_id,
                            f.tracked_stracks[i].state>>],
           lost |-> [i \in 1..Len(f.lost_stracks) |->
                       <<f.lost_stracks[i].track_id, f.lost_stracks[i].state>>] ]
    ELSE [ count |-> f.track_id_count,
           tracked |-> f.tracks,
           lost |-> f.disappeared_tracks,
           states |-> [id \in DOMAIN f.heap |-> f.heap[id].state] ]

\* C12: two instances of one engine with the same configuration, given the
\* same frames, return the same identifiers and show the same identifiers
\* and track states after every frame.
C12_Determinism ==
    /\ IdView(engine, IF engine = "bytetrack" THEN bt ELSE oc)
          = IdView(engine, twin)
    /\ last.op = "update" => last.returned = last.twin_returned

\* the last step was an update() call, of any engine
UpdatedAny == calls' # calls

\* a detection without extent whichever way its four numbers are read, or
\* a detection dict with non-positive width or height
Malformed(d) ==
    IF engine = "service" THEN d.width <= 0 \/ d.height <= 0
    ELSE /\ d.box[3] <= d.box[1] \/ d.box[4] <= d.box[2]
         /\ d.box[3] <= 0 \/ d.box[4] <= 0

\* the boxes of the tracks the engine holds after the update() just made
\* that were created or updated in that frame
TouchedBoxes ==
    IF engine = "service"
    THEN {ts'.tracks[tid].box : tid \in {i \in DOMAIN ts'.tracks :
                                           ts'.tracks[i].age = 0}}
    ELSE {t.tlwh : t \in Touched}

\* C13: a malformed detection is dropped before association: after the
\* update() no track created or updated in the frame has its box.
C13_MalformedDropped ==
    [][UpdatedAny
         => \A d \in Range(last'.input) :
               Malformed(d)
                 => /\ (IF engine = "service" THEN TS_det_box(d) ELSE d.box)
                          \notin TouchedBoxes
                    /\ engine # "service"
                         => \A k \in 1..Len(last'.dets) :
                               last'.dets[k].tlwh # d.box]_vars

\* the rectangle [x, y, w, h] a caller means by four numbers given in one
\* of the two forms
Meant(form, box) ==
    IF form = "tlbr"
    THEN <<box[1], box[2], box[3] - box[1], box[4] - box[2]>>
    ELSE box

\* the box kept for the k-th detection of the frame just given: on the
\* object built from it, and on the track a new engine creates from it
StoredBoxes(k) ==
    {last'.dets[k].tlwh}
    \cup (IF calls # 0 THEN {}
          ELSE IF engine = "bytetrack" THEN {bt'.tracked_stracks[k].tlwh}
          ELSE {oc'.heap[oc'.tracks[k]].tlwh})

\* an update() of a ByteTracker or OCSort that kept every detection
Converted ==
    /\ Updated("bytetrack") \/ Updated("ocsort")
    /\ last'.raised = "none"
    /\ Len(last'.dets) = Len(last'.input)

\* C14 as stated: whichever form a box of positive width and height is
\* given in, the box stored for it is the rectangle meant.
C14_BoxRoundTrip ==
    [][Converted
         => \A k \in 1..Len(last'.input) : \A form \in {"tlbr", "tlwh"} :
               LET rect == Meant(form, last'.input[k].box)
               IN  (rect[3] > 0 /\ rect[4] > 0)
                     => \A stored \in StoredBoxes(k) : stored = rect]_vars

\* C14 amended: corners [x1, y1, x2, y2] with x2 > x1 and y2 > y1 are stored
\* as [x1, y1, x2 - x1, y2 - y1]; [x, y, w, h] with positive w and h is
\* stored as it is when w <= x or h <= y, and is taken for corners, stored
\* as [x, y, w - x, h - y], when w > x and h > y.
C14_BoxRoundTripByOrdering ==
    [][Converted
         => \A k \in 1..Len(last'.input) :
               LET box == last'.input[k].box
                   corners == Meant("tlbr", box)
               IN  /\ (corners[3] > 0 /\ corners[4] > 0)
                         => \A stored \in StoredBoxes(k) : stored = corners
                   /\ (box[3] > 0 /\ box[4] > 0
                          /\ (box[3] <= box[1] \/ box[4] <= box[2]))
                         => \A stored \in StoredBoxes(k) :
                               stored = Meant("tlwh", box)]_vars

\* a new ByteTracker given [5, 0, 10, 1] and one given [20, 3, 10, 1]
C14_Witness ==
    /\ engine = "bytetrack"
    /\ calls = 1
    /\ last.op = "update"
    /\ Len(last.input) = 2
    /\ last.input[1].box = <<5, 0, 10, 1>>
    /\ bt.tracked_stracks[1].tlwh = <<5, 0, 5, 1>>
    /\ last.input[2].box = <<20, 3, 10, 1>>
    /\ bt.tracked_stracks[2].tlwh = <<20, 3, 10, 1>>

\* C15: an update() that ends in an exception leaves the engine as it was
\* before the call: frame counter, identifier counter, the pools and every
\* track in them.
C15_AllOrNothing ==
    [][(UpdatedAny /\ last'.raised # "none")
         => /\ bt' = bt
            /\ oc' = oc
            /\ ts' = ts]_vars

\* C16: update() does not raise, whatever the thresholds and the frame, and
\* every pair an association reports names a track and a detection of the
\* lists it was given (stage 1: the active pool and the detections kept).
C16_NoRaise ==
    [][(Updated("bytetrack") \/ Updated("ocsort"))
         => /\ last'.raised = "none"
            /\ \A k \in 1..Len(last'.assoc) :
                  /\ "raised" \notin DOMAIN last'.assoc[k]
                  /\ \A i \in 1..Len(last'.assoc[k].matched) :
                        LET pair == last'.assoc[k].matched[i]
                        IN  /\ pair[1] >= 1
                            /\ pair[2] >= 1
                            /\ k = 1 => /\ pair[1] <= PoolSize
                                        /\ pair[2] <= Len(last'.dets)]_vars

\* C17: after any sequence of update_appearance() calls a track holds at
\* most five descriptors; a call with a region appends its descriptor and,
\* when five were already held, drops the oldest one; a call with no region
\* or an empty region leaves the descriptors as they were.
C17_RingCapped ==
    /\ Len(oc.tracks[1].appearance_features) <= 5
    /\ last.op = "update_appearance" =>
          /\ oc.tracks[1].appearance_features = last.after
          /\ last.input \in {"none", "empty"} => last.after = last.before
          /\ last.input \notin {"none", "empty"} =>
                last.after = IF Len(last.before) = 5
                             THEN Append(Tail(last.before), last.input)
                             ELSE Append(last.before, last.input)

\* a full ring whose oldest descriptor differs from the others took one more
C17_Witness ==
    /\ last.op = "update_appearance"
    /\ Len(last.before) = 5
    /\ last.input = "c"
    /\ last.before[1] = "a"
    /\ last.before[2] = "b"
    /\ last.after = <<"b", "b", "b", "b", "c">>

\* C18: what update() returns is a snapshot: when the caller removes an
\* entry from the returned list or appends one to it, the engine's pools
\* (and every other engine field) stay as they were.
C18_ReturnedIsSnapshot ==
    [][last'.op = "mutate" => /\ bt' = bt
                              /\ oc' = oc
                              /\ ts' = ts]_vars

\* the one track of a TrackingService holding exactly one
OnlyTrack(t) == CHOOSE tid \in DOMAIN t.tracks : TRUE

\* one track, one detection, and the cost of the pair, centre distance times
\* (1 - 0.7 IoU), is below max_distance
OneOnOne ==
    /\ Updated("service")
    /\ Cardinality(DOMAIN ts.tracks) = 1
    /\ Len(last'.input) = 1
    /\ LET t_box == SubSeq(ts.tracks[OnlyTrack(ts)].box, 1, 4)
           d_box == SubSeq(TS_det_box(last'.input[1]), 1, 4)
           f == iou(t_box, d_box)
       IN  TS_distance2(t_box, d_box) * (10 * f[2] - 7 * f[1])
               < cfg.max_distance * 20 * f[2]

\* the detection went to the one track: same id, its box, active, returned
\* alone, and no id was allocated
Maintained ==
    LET tid == OnlyTrack(ts)
    IN  /\ ts'.next_id = ts.next_id
        /\ DOMAIN ts'.tracks = {tid}
        /\ ts'.tracks[tid].box = TS_det_box(last'.input[1])
        /\ ts'.tracks[tid].active
        /\ Len(last'.returned) = 1
        /\ last'.returned[1].id = tid
        /\ last'.returned[1].active
        /\ last'.created = {}

\* C19: when a TrackingService holds exactly one track and update() is
\* given exactly one detection whose cost to the track is below
\* max_distance, the detection is assigned to the track, which is returned
\* under its id as active, and no new id is allocated.
C19_IdentityKept ==
    [][OneOnOne => Maintained]_vars

\* C19 as the code has it: the same, for a track that survives the ageing
\* at the start of the call, that is whose age before it is below max_age.
C19_IdentityKeptUnlessExpired ==
    [][(OneOnOne /\ ts.tracks[OnlyTrack(ts)].age < cfg.max_age)
          => Maintained]_vars

\* a track that moved: the second update gave the one track a new box
C19_Witness ==
    /\ engine = "service"
    /\ last.op = "update"
    /\ calls = 2
    /\ last.input = <<Person(5)>>
    /\ ts.next_id = 2
    /\ DOMAIN ts.tracks = {1}
    /\ ts.tracks[1].box = TS_det_box(Person(5))
    /\ Len(last.returned) = 1
    /\ last.returned[1].id = 1
    /\ last.returned[1].x = 5
    /\ last.assoc[1].matched = <<<<1, 1>>>>

\* C20: update() on a TrackingService that holds no track and has issued no
\* id, given n >= 1 detections, returns exactly n tracks, all active, with
\* the ids 1..n in the order of the detections.
C20_FreshCreatesInOrder ==
    [][(/\ Updated("service")
        /\ ts = TrackingService_init
        /\ Len(last'.input) >= 1)
          => /\ Len(last'.returned) = Len(last'.input)
             /\ \A k \in 1..Len(last'.input) :
                   /\ last'.returned[k].id = k
                   /\ last'.returned[k].active
                   /\ last'.returned[k].x = last'.input[k].x
                   /\ last'.returned[k].y = last'.input[k].y
                   /\ last'.returned[k].width = last'.input[k].width
                   /\ last'.returned[k].height = last'.input[k].height
             /\ ts'.next_id = Len(last'.input) + 1]_vars

\* two detections given to a fresh TrackingService came back as 1 and 2
C20_Witness ==
    /\ engine = "service"
    /\ last.op = "update"
    /\ calls = 1
    /\ last.input = <<Person(5), Person(0)>>
    /\ Len(last.returned) = 2
    /\ last.returned[1].id = 1
    /\ last.returned[1].x = 5
    /\ last.returned[2].id = 2
    /\ last.returned[2].x = 0

\* C21: when the re-identification of an OCSort update accepts a track of
\* the disappeared pool for a detection, then after the update that track
\* has the identifier it had, is Tracked with occlusion counter 0, is in the
\* active pool and is not in the disappeared pool.
C21_Reinstated ==
    [][Updated("ocsort")
         => \A k \in 1..Len(last'.reid) :
               LET id == last'.reid[k].match
               IN  id # 0
                   => /\ id \in Range(oc'.tracks)
                      /\ oc'.heap[id].track_id = id
                      /\ oc'.heap[id].state = "tracked"
                      /\ oc'.heap[id].occlusion_count = 0
                      /\ id \notin Range(oc'.disappeared_tracks)]_vars

\* no entry of a list occurs in it twice
NoRepeat(l) == \A i, j \in 1..Len(l) : l[i] = l[j] => i = j

\* C22: after every OCSort update the active pool holds no track twice and
\* the returned list holds no identifier twice.
C22_NoDuplicates ==
    engine = "ocsort"
        => /\ NoRepeat(oc.tracks)
           /\ last.op = "update" => NoRepeat(last.returned)

\* C23: reinstating a track of the disappeared pool removes exactly that
\* track from the pool: every other entry the pool held at that moment is
\* still in it afterwards (at the end of the call unless the age horizon
\* has passed for it), and after every update no track is in both the
\* active pool and the disappeared pool.
C23_OnlyAcceptedLeavesPool ==
    [][Updated("ocsort")
         => /\ \A k \in 1..Len(last'.reid) :
                 LET e == last'.reid[k]
                 IN  e.match # 0
                     => \A id \in Range(e.pool) \ {e.match} :
                           IF k < Len(last'.reid)
                           THEN id \in Range(last'.reid[k + 1].pool)
                           ELSE \/ id \in Range(oc'.disappeared_tracks)
                                \/ oc'.frame_id - oc.heap[id].frame_id
                                       > cfg.max_age
            /\ Range(oc'.tracks) \cap Range(oc'.disappeared_tracks) = {}]_vars

\* the state entry k of the pool stage 1 works on has after prediction
PoolStatePredicted(k) ==
    IF engine = "bytetrack" THEN STrack_predict(bt.tracked_stracks[k]).state
    ELSE last'.predicted[oc.tracks[k]].state

\* C24: stage 1 matches no track that is Lost after prediction: every pair
\* of the first association has a track that is not Lost at that point.
C24_Stage1OnlyTracked ==
    [][((Updated("bytetrack") \/ Updated("ocsort")) /\ last'.raised = "none")
         => \A i \in 1..Len(last'.assoc[1].matched) :
               PoolStatePredicted(last'.assoc[1].matched[i][1]) # "lost"]_vars

\* the low-confidence toggle of the engine is on
LowToggle ==
    IF engine = "bytetrack" THEN cfg.mot20 ELSE cfg.use_byte

\* the detections of the frame just given with a score of at least 0.1 and
\* below the activation threshold
LowScored ==
    LET least == IF engine = "bytetrack" THEN cfg.track_thresh
                 ELSE cfg.det_thresh
    IN  {d \in Range(last'.input) : d.score >= LowFloor /\ d.score < least}

\* C25: with the low-confidence toggle on, a detection with a score of at
\* least 0.1 and below the activation threshold is among the candidates of
\* stage 2 (the detections the call keeps), and no track is created from it.
C25_LowScoreRetried ==
    [][((Updated("bytetrack") \/ Updated("ocsort")) /\ LowToggle
        /\ last'.raised = "none")
         => \A d \in LowScored :
               /\ \E k \in 1..Len(last'.dets) :
                     /\ last'.dets[k].score = d.score
                     /\ last'.dets[k].tlwh = to_tlwh(d.box)
               /\ \A t \in Touched : t.score # d.score]_vars

\* C26: after every update() every track of an active pool was last updated
\* at most the retention horizon ago: ByteTracker's tracked and lost tracks
\* within track_buffer frames, OCSort's tracks within max_age frames.
C26_RetentionHorizon ==
    /\ engine = "bytetrack"
         => \A t \in Range(bt.tracked_stracks) \cup Range(bt.lost_stracks) :
               bt.frame_id - t.frame_id <= cfg.track_buffer
    /\ engine = "ocsort"
         => \A id \in Range(oc.tracks) :
               oc.frame_id - oc.heap[id].frame_id <= cfg.max_age

\* the disappeared-pool entries lines 344-352 of the update() just made
\* appended
NewlyPooled ==
    Range(SubSeq(last'.pooled, Len(oc.disappeared_tracks) + 1,
                 Len(last'.pooled)))

\* C27: a track that an OCSort update marks Removed is appended to the
\* disappeared pool at that moment exactly when its hit count is at least
\* min_hits.  A track removed with fewer hits is in neither pool and not
\* returned after the frame, and no update() brings an identifier back: the
\* tracks in the pools after a call were in a pool before it or were created
\* by it under an identifier above every one allocated so far.
C27_PooledIffEnoughHits ==
    [][Updated("ocsort")
         => /\ \A k \in 1..Len(last'.unmatched) :
                 LET u == last'.unmatched[k]
                 IN  u.occlusion_count >= u.budget
                     => /\ u.id \in NewlyPooled <=> u.hits >= cfg.min_hits
                        /\ u.hits < cfg.min_hits
                             => /\ u.id \notin Range(oc'.tracks)
                                /\ u.id \notin Range(oc'.disappeared_tracks)
                                /\ u.id \notin Range(last'.returned)
            /\ NewlyPooled \subseteq
                  {last'.unmatched[k].id : k \in 1..Len(last'.unmatched)}
            /\ \A id \in Range(oc'.tracks) \cup Range(oc'.disappeared_tracks) :
                  \/ id \in Range(oc.tracks) \cup Range(oc.disappeared_tracks)
                  \/ id \in last'.created /\ id > oc.track_id_count]_vars

\* an update() has just removed a track that had fewer hits than min_hits
\* asks for, and the track is in no pool
C27_Witness ==
    /\ engine = "ocsort"
    /\ last.op = "update"
    /\ cfg.min_hits = 3
    /\ \E k \in 1..Len(last.unmatched) :
          /\ last.unmatched[k].occlusion_count >= last.unmatched[k].budget
          /\ last.unmatched[k].hits = 1
          /\ last.unmatched[k].id \notin Range(oc.tracks)
          /\ last.unmatched[k].id \notin Range(oc.disappeared_tracks)

\* after an OCSort update every entry of the disappeared pool was last
\* updated at most max_age frames ago
PoolPruned ==
    engine = "ocsort"
        => \A id \in Range(oc.disappeared_tracks) :
              oc.frame_id - oc.heap[id].frame_id <= cfg.max_age

\* C28: after every OCSort update every entry of the disappeared pool was
\* last updated at most max_age frames ago, and an entry older than that is
\* never reinstated: a track that re-identification accepts was last updated
\* at most max_age frames before the frame that reinstates it.
C28_PoolWithinHorizon ==
    /\ []PoolPruned
    /\ [][Updated("ocsort")
            => \A k \in 1..Len(last'.reid) :
                  LET id == last'.reid[k].match
                  IN  id # 0 => oc'.frame_id - oc.heap[id].frame_id
                                    <= cfg.max_age]_vars

\* C29: the track re-identification reinstates for a leftover detection is
\* a disappeared track within the spatial gate of the detection whose
\* combined score is above the acceptance threshold 0.6 and is the highest
\* among the tracks within the gate; and no disappeared track is reinstated
\* by two detections of one frame.
C29_BestGatedCandidate ==
    [][Updated("ocsort")
         => /\ \A k \in 1..Len(last'.reid) :
                 LET e == last'.reid[k]
                 IN  e.match # 0
                     => \E i \in 1..Len(e.candidates) :
                           /\ e.candidates[i].id = e.match
                           /\ e.candidates[i].gated
                           /\ e.candidates[i].sim > 1200
                           /\ \A j \in 1..Len(e.candidates) :
                                 e.candidates[j].gated
                                   => e.candidates[j].sim <= e.candidates[i].sim
            /\ \A k1, k2 \in 1..Len(last'.reid) :
                  (k1 # k2 /\ last'.reid[k1].match # 0)
                    => last'.reid[k1].match # last'.reid[k2].match]_vars

\* the activation threshold of the engine
Least == IF engine = "bytetrack" THEN cfg.track_thresh ELSE cfg.det_thresh

\* the detection, as a position of the detections the update() just made
\* kept, behind position j of the candidates of its stage 2: the detections
\* stage 1 left over, then the low-score ones
Stage2Det(j) ==
    LET u == last'.assoc[1].unmatched_dets
        high == Cardinality({k \in 1..Len(last'.dets) :
                               last'.dets[k].score >= Least})
    IN  IF j <= Len(u) THEN u[j] ELSE high + (j - Len(u))

\* the outcomes of detection k in the update() just made
InStage1(k) ==
    /\ last'.raised = "none"
    /\ \E i \in 1..Len(last'.assoc[1].matched) :
          last'.assoc[1].matched[i][2] = k
InStage2(k) ==
    /\ Len(last'.assoc) >= 2
    /\ \E i \in 1..Len(last'.assoc[2].matched) :
          Stage2Det(last'.assoc[2].matched[i][2]) = k
ReIdentified(k) ==
    /\ engine = "ocsort"
    /\ \E j \in 1..Len(last'.reid) :
          last'.reid[j].det = k /\ last'.reid[j].match # 0
\* the tracks created from detection k: allocated by this call, started in
\* this frame on the box of the detection, and in the active pool
NewFrom(k) ==
    IF engine = "bytetrack"
    THEN {id \in last'.created :
            \E t \in Range(bt'.tracked_stracks) :
               /\ t.track_id = id
               /\ t.tlwh = last'.dets[k].tlwh
               /\ t.start_frame = bt'.frame_id}
    ELSE {id \in last'.created :
            /\ id \in Range(oc'.tracks)
            /\ oc'.heap[id].tlwh = last'.dets[k].tlwh
            /\ oc'.heap[id].start_frame = oc'.frame_id}
\* the identifiers held by a track before the update()
HeldBefore ==
    IF engine = "bytetrack"
    THEN {t.track_id : t \in Range(bt.tracked_stracks) \cup Range(bt.lost_stracks)}
    ELSE HeldIds
Count(b) == IF b THEN 1 ELSE 0

\* C30: in an update() every detection at or above the activation threshold
\* has exactly one outcome: matched in stage 1, matched in stage 2,
\* re-identified with a disappeared track, or made into exactly one new
\* track with an identifier this call allocates and no track held; every
\* track the call creates comes from a detection with none of the first
\* three outcomes.
C30_OneOutcomePerDetection ==
    [][(Updated("bytetrack") \/ Updated("ocsort"))
         => LET strong == {k \in 1..Len(last'.dets) :
                             last'.dets[k].score >= Least}
                orphans == {k \in strong :
                              ~InStage1(k) /\ ~InStage2(k) /\ ~ReIdentified(k)}
            IN  /\ \A k \in strong :
                      /\ Count(InStage1(k)) + Count(InStage2(k))
                           + Count(ReIdentified(k))
                           + Cardinality(NewFrom(k)) = 1
                      /\ NewFrom(k) \cap HeldBefore = {}
                /\ Cardinality(last'.created) = Cardinality(orphans)
                /\ last'.created = UNION {NewFrom(k) : k \in orphans}]_vars



\* the IoU matrix of the arguments of the association call just made
CallMatrix ==
    [t \in 1..Len(last.tracks) |->
        [d \in 1..Len(last.detections) |->
            iou(tlbr(to_tlwh(last.tracks[t])),
                tlbr(to_tlwh(last.detections[d])))]]

\* the lists a and b together hold each of 1..n exactly once
Partition(a, b, n) ==
    /\ Range(a) \cup Range(b) = 1..n
    /\ Len(a) + Len(b) = n

\* C31: OCSort._associate returns the pairs at or above the threshold of a
\* one-to-one assignment of maximal total IoU (one pair per row or per
\* column, whichever are fewer): every returned pair has IoU >= threshold,
\* and the matched pairs with the unmatched tracks, and with the unmatched
\* detections, hold every track index and every detection index once.
C31_OptimalThenFiltered ==
    (engine = "ocsort" /\ last.op = "associated")
      => LET r == last.assoc[1]
             m == CallMatrix
             n == Len(last.tracks)
             k == Len(last.detections)
             kept(a) == SelectSeq(a, LAMBDA p :
                                       FracGEPct(m[p[1]][p[2]], last.thresh))
         IN  /\ \A i \in 1..Len(r.matched) :
                   FracGEPct(m[r.matched[i][1]][r.matched[i][2]], last.thresh)
             /\ Partition([i \in 1..Len(r.matched) |-> r.matched[i][1]],
                          r.unmatched_trks, n)
             /\ Partition([i \in 1..Len(r.matched) |-> r.matched[i][2]],
                          r.unmatched_dets, k)
             /\ (n > 0 /\ k > 0)
                  => \E a \in Assignments(n, k) :
                        /\ \A b \in Assignments(n, k) :
                              FracGE(TotalIou(m, a), TotalIou(m, b))
                        /\ r.matched = kept(a)
             /\ (n = 0 \/ k = 0) => r.matched = <<>>

\* a call on two tracks and two detections that kept one pair of the
\* assignment and discarded the other
C31_Witness ==
    /\ engine = "ocsort"
    /\ last.op = "associated"
    /\ Len(last.tracks) = 2
    /\ Len(last.detections) = 2
    /\ Len(last.assoc[1].matched) = 1
    /\ last.thresh > 0


\* C32: the result of OCSort._associate is maximal: no track it leaves
\* unmatched and detection it leaves unmatched have an IoU at or above the
\* threshold.
C32_NothingLeftToMatch ==
    (engine = "ocsort" /\ last.op = "associated")
      => \A t \in Range(last.assoc[1].unmatched_trks) :
            \A d \in Range(last.assoc[1].unmatched_dets) :
               ~FracGEPct(CallMatrix[t][d], last.thresh)


\* C33: ByteTracker._associate returns the result of the greedy policy:
\* pair after pair it matches the pair of highest IoU among the tracks and
\* detections not matched yet (on ties the first in track-major order) as
\* long as that IoU is >= threshold; so every matched pair has IoU >=
\* threshold, and on return no unmatched track and unmatched detection
\* have IoU >= threshold.
C33_GreedyPolicy ==
    (engine = "bytetrack" /\ last.op = "associated")
      => LET r == last.assoc[1]
             m == CallMatrix
         IN  /\ "matched" \in DOMAIN r
             /\ \A i \in 1..Len(r.matched) :
                   LET p == r.matched[i]
                       ts0 == (1..Len(last.tracks))
                                \ {r.matched[j][1] : j \in 1..(i - 1)}
                       ds0 == (1..Len(last.detections))
                                \ {r.matched[j][2] : j \in 1..(i - 1)}
                   IN  /\ FracGEPct(m[p[1]][p[2]], last.thresh)
                       /\ p[1] \in ts0 /\ p[2] \in ds0
                       /\ \A t \in ts0 : \A d \in ds0 :
                             /\ FracGE(m[p[1]][p[2]], m[t][d])
                             /\ FracGE(m[t][d], m[p[1]][p[2]])
                                  => \/ t > p[1]
                                     \/ t = p[1] /\ d >= p[2]
             /\ \A t \in Range(r.unmatched_trks) :
                   \A d \in Range(r.unmatched_dets) :
                      ~FracGEPct(m[t][d], last.thresh)
             /\ Partition([i \in 1..Len(r.matched) |-> r.matched[i][1]],
                          r.unmatched_trks, Len(last.tracks))
             /\ Partition([i \in 1..Len(r.matched) |-> r.matched[i][2]],
                          r.unmatched_dets, Len(last.detections))


\* the unit cells of the grid a box [x1, y1, x2, y2] covers
Cells(box) ==
    {<<x, y>> : x \in box[1]..(box[3] - 1), y \in box[2]..(box[4] - 1)}

\* (x2 - x1) * (y2 - y1) of a box
Area(box) == (box[3] - box[1]) * (box[4] - box[2])

\* C34: the IoU cost is 0 when the boxes share no area, when either box has
\* non-positive area and when the union is not positive, and its
\* denominator is never 0; otherwise it is the shared area over the area
\* of the union, lies in (0, 1] and is 1 for identical boxes; and it is the
\* same with the arguments swapped.
C34_IouCost ==
    last.op = "iou_done"
      => LET v == last.value
             shared == Cardinality(Cells(last.box1) \cap Cells(last.box2))
             union == Cardinality(Cells(last.box1) \cup Cells(last.box2))
         IN  /\ v[2] > 0
             /\ v[1] * last.swapped[2] = last.swapped[1] * v[2]
             /\ IF \/ shared = 0
                   \/ Area(last.box1) <= 0
                   \/ Area(last.box2) <= 0
                   \/ union <= 0
                THEN v[1] = 0
                ELSE /\ v[1] * union = shared * v[2]
                     /\ 0 < v[1]
                     /\ v[1] <= v[2]
                     /\ last.box1 = last.box2 => v[1] = v[2]

\* a call on two boxes that overlap in part: the cost is neither 0 nor 1
C34_Witness ==
    /\ last.op = "iou_done"
    /\ last.box1 # last.box2
    /\ 0 < last.value[1]
    /\ last.value[1] < last.value[2]


\* C35: Track.update(detection, frameIndex) of an STrack or an OCTrack in
\* state New or Lost leaves the track Tracked and activated, with
\* time_since_update 0, the hit count one higher, the last-update frame
\* frameIndex, the box and score of the detection, and the centre of the
\* detection's box as the newest entry of its history.
C35_UpdateFromNewOrLost ==
    (last.op = "track_updated" /\ last.before.state \in {"new", "lost"})
      => /\ last.track.state = "tracked"
         /\ last.track.is_activated
         /\ last.track.time_since_update = 0
         /\ last.track.tracklet_len = last.before.tracklet_len + 1
         /\ last.track.frame_id = last.frame_id
         /\ last.track.tlwh = last.det.tlwh
         /\ last.track.score = last.det.score
         /\ Len(last.history) >= 1
         /\ last.history[Len(last.history)] = center2(last.det.tlwh)
         /\ Len(last.history) = Min(Len(last.history_before) + 1, HistoryKept)


\* C36: after every ByteTracker.update() every track in tracked_stracks is
\* in state tracked, activated, has time_since_update 0 and was last
\* updated in the engine's current frame.
C36_TrackedAreCurrent ==
    (engine = "bytetrack" /\ last.op = "update")
      => \A t \in Range(bt.tracked_stracks) :
            /\ t.state = "tracked"
            /\ t.is_activated
            /\ t.time_since_update = 0
            /\ t.frame_id = bt.frame_id


\* no track of the OCSort holds an appearance descriptor and no
\* re-identification was counted
NothingSeen ==
    /\ oc.reid_matches = 0
    /\ \A id \in DOMAIN oc.heap : oc.heap[id].appearance_features = <<>>

\* C37: an OCSort whose update() calls all come without an image holds no
\* appearance descriptor and never re-identifies: reid_matches stays 0, and
\* every detection left over after association scores at most the position
\* share (0.2) against every disappeared track, is matched to none and
\* becomes a new track under a new identifier.
C37_NoImageNoReid ==
    /\ []NothingSeen
    /\ [][Updated("ocsort")
            => /\ \A k \in 1..Len(last'.reid) :
                     LET e == last'.reid[k]
                     IN  /\ e.match = 0
                         /\ \A i \in 1..Len(e.candidates) :
                               e.candidates[i].sim <= 400
                         /\ \E id \in last'.created :
                               /\ id \notin HeldIds
                               /\ id \in Range(oc'.tracks)
                               /\ oc'.heap[id].tlwh = last'.dets[e.det].tlwh
               /\ Cardinality(last'.created) = Len(last'.reid)]_vars

\* an update() that held a detection against a disappeared track within
\* the distance gate, matched it to none and created a track
C37_Witness ==
    /\ last.op = "update"
    /\ \E k \in 1..Len(last.reid) :
          /\ last.reid[k].match = 0
          /\ \E i \in 1..Len(last.reid[k].candidates) :
                last.reid[k].candidates[i].gated
    /\ last.created # {}
    /\ oc.reid_matches = 0


\* the stored tracks that outlive the ageing at the head of the update()
\* just made, in dict order: the rows of its cost matrix
Survivors ==
    Ascending({tid \in DOMAIN ts.tracks :
                 ts.tracks[tid].age + 1 <= cfg.max_age})

\* the stored tracks the update() just made matched to a detection
MatchedIds ==
    {Survivors[last'.assoc[1].matched[i][1]] :
        i \in 1..Len(last'.assoc[1].matched)}

\* C38: after TrackingService.update() with n >= 1 detections exactly n
\* stored tracks are active, each with age 0; the detections correspond one
\* to one to the active tracks, each being the box of its track, which is a
\* track created in this call or a stored track matched to the detection at
\* a cost below max_distance; and every stored track neither matched nor
\* created in this call is inactive.
C38_ActiveAreThisFrame ==
    [][(Updated("service") /\ Len(last'.input) >= 1)
         => LET n == Len(last'.input)
                active == {tid \in DOMAIN ts'.tracks : ts'.tracks[tid].active}
                det_box(k) == TS_det_box(last'.input[k])
                matched == last'.assoc[1].matched
            IN  /\ Cardinality(active) = n
                /\ \A tid \in active : ts'.tracks[tid].age = 0
                /\ \E f \in [1..n -> active] :
                      /\ \A j, k \in 1..n : j # k => f[j] # f[k]
                      /\ \A k \in 1..n :
                            /\ ts'.tracks[f[k]].box = det_box(k)
                            /\ \/ f[k] \in last'.created
                               \/ \E i \in 1..Len(matched) :
                                     /\ matched[i][2] = k
                                     /\ Survivors[matched[i][1]] = f[k]
                                     /\ FracLTInt(
                                          TS_cost(SubSeq(ts.tracks[f[k]].box, 1, 4),
                                                  SubSeq(det_box(k), 1, 4)),
                                          cfg.max_distance)
                /\ \A tid \in DOMAIN ts'.tracks :
                      tid \notin (MatchedIds \cup last'.created)
                        => ~ts'.tracks[tid].active]_vars

\* an update() with two detections that matched one to a stored track,
\* made a new track of the other and left a third track unmatched
C38_Witness ==
    /\ engine = "service"
    /\ last.op = "update"
    /\ Len(last.input) = 2
    /\ Len(last.assoc[1].matched) = 1
    /\ Cardinality(last.created) = 1
    /\ \E tid \in DOMAIN ts.tracks : ~ts.tracks[tid].active


\* the update() just made matched no detection to the stored track tid
UnmatchedNow(tid) == Len(last'.assoc) = 0 \/ tid \notin MatchedIds

\* the entry of the list just returned for the track tid, if there is one
ReportedAs(tid) ==
    {last'.returned[j] : j \in {i \in 1..Len(last'.returned) :
                                   last'.returned[i].id = tid}}

\* the list just returned holds exactly the stored tracks that are active
\* or at most 5 frames old, each once and as stored
ReturnedAreShown ==
    /\ {last'.returned[j].id : j \in 1..Len(last'.returned)}
         = {tid \in DOMAIN ts'.tracks :
              ts'.tracks[tid].active \/ ts'.tracks[tid].age <= ReportedAge}
    /\ \A i, j \in 1..Len(last'.returned) :
          i # j => last'.returned[i].id # last'.returned[j].id
    /\ \A j \in 1..Len(last'.returned) :
          LET r == last'.returned[j]
              t == ts'.tracks[r.id]
          IN  /\ r.active = t.active
              /\ r.age = t.age
              /\ <<r.x, r.y, r.x + r.width, r.y + r.height, r.confidence>> = t.box

\* a stored track that the update() just made left unmatched, for the k-th
\* frame in a row, is listed (inactive, with the box it had) when k is at
\* most `listed`, is not listed when k > 5, and is stored afterwards exactly
\* when k <= max_age
UnmatchedAreKept(listed) ==
    \A tid \in DOMAIN ts.tracks :
       UnmatchedNow(tid)
         => LET k == ts.tracks[tid].age + 1
            IN  /\ (1 <= k /\ k <= listed)
                     => \E r \in ReportedAs(tid) :
                           /\ ~r.active
                           /\ r.age = k
                           /\ <<r.x, r.y, r.x + r.width, r.y + r.height,
                                r.confidence>> = ts.tracks[tid].box
                /\ k > ReportedAge => ReportedAs(tid) = {}
                /\ k <= cfg.max_age <=> tid \in DOMAIN ts'.tracks

\* a stored track whose age stays within max_age and that is the only one
\* within max_distance of the one detection of the frame is matched to it
\* under its id, however long it went unmatched
MatchedAgain ==
    Len(last'.input) = 1
      => LET det_box == TS_det_box(last'.input[1])
             near == {tid \in Range(Survivors) :
                        FracLTInt(TS_cost(SubSeq(ts.tracks[tid].box, 1, 4),
                                          SubSeq(det_box, 1, 4)),
                                  cfg.max_distance)}
         IN  \A tid \in near :
                near = {tid}
                  => /\ tid \in DOMAIN ts'.tracks
                     /\ ts'.tracks[tid].active
                     /\ ts'.tracks[tid].age = 0
                     /\ ts'.tracks[tid].box = det_box
                     /\ last'.created = {}

\* C39: TrackingService.update() returns exactly the stored tracks that are
\* active or have age <= 5; a track unmatched for k frames in a row is
\* listed, inactive and with its last box, for 1 <= k <= 5 and not listed
\* for k > 5, stays stored until its age exceeds max_age and is matched
\* again under its id while it is stored.
C39_ListedFiveFrames ==
    [][Updated("service")
         => /\ ReturnedAreShown
            /\ UnmatchedAreKept(ReportedAge)
            /\ MatchedAgain]_vars

\* C39 as the code has it: the same, with the track listed for
\* 1 <= k <= min(5, max_age), since a track older than max_age is deleted
\* before the list is made.
C39_ListedWhileStored ==
    [][Updated("service")
         => /\ ReturnedAreShown
            /\ UnmatchedAreKept(Min(ReportedAge, cfg.max_age))
            /\ MatchedAgain]_vars

\* a track unmatched for six frames: stored, and not in the list returned
C39_Witness ==
    /\ engine = "service"
    /\ last.op = "update"
    /\ \E tid \in DOMAIN ts.tracks :
          /\ ts.tracks[tid].age = ReportedAge + 1
          /\ \A j \in 1..Len(last.returned) : last.returned[j].id # tid


\* every stored track is at most max_age frames old, has an id that was
\* issued, and next_id lies above every id issued
StoredWithinAge ==
    /\ \A tid \in DOMAIN ts.tracks : ts.tracks[tid].age <= cfg.max_age
    /\ DOMAIN ts.tracks \subseteq issued
    /\ \A tid \in issued : tid < ts.next_id

\* C40: in a TrackingService every stored track has age <= max_age after
\* every update(); a track left unmatched for more than max_age frames in a
\* row is deleted by the update() that finds it so; next_id never
\* decreases, and the id of a deleted track is neither stored, nor issued,
\* nor returned by any later update().
C40_DeletedForGood ==
    /\ [](engine = "service" => StoredWithinAge)
    /\ [][Updated("service")
            => /\ ts'.next_id >= ts.next_id
               /\ last'.created \cap issued = {}
               /\ \A tid \in DOMAIN ts.tracks :
                     (UnmatchedNow(tid) /\ ts.tracks[tid].age + 1 > cfg.max_age)
                       => tid \notin DOMAIN ts'.tracks
               /\ \A tid \in issued \ DOMAIN ts.tracks :
                     /\ tid \notin DOMAIN ts'.tracks
                     /\ tid \notin last'.created
                     /\ ReportedAs(tid) = {}]_vars

\* the first track was deleted, and a later detection at its place became
\* a track under a new id
C40_Witness ==
    /\ engine = "service"
    /\ last.op = "update"
    /\ 1 \in issued
    /\ 1 \notin DOMAIN ts.tracks
    /\ last.input = <<Person(0)>>
    /\ last.created = {2}
    /\ ts.tracks[2].box = TS_det_box(Person(0))
    /\ Len(last.returned) = 1
    /\ last.returned[1].id = 2

====
